---------------------------- MODULE Spec2Model ----------------------------
(***************************************************************************)
(* A model of lib/validators/specResolver.ts (SpecResolver and             *)
(* PolymorphicTree): the resolver pipeline over a Swagger 2.0 document.    *)
(*                                                                         *)
(* The document is a typed abstraction of the JSON tree: `definitions`     *)
(* (an insertion-ordered map of model schemas), `paths` (path -> verb ->   *)
(* operation), `x-ms-paths` and `x-ms-parameterized-host`.  A `$ref`       *)
(* string "file#/definitions/Name" is the record [file, ptr]: file = ""    *)
(* is a local reference, ptr = "" a whole-file reference.                  *)
(***************************************************************************)
EXTENDS Integers, Sequences, FiniteSets, TLC

(***************************************************************************)
(* Bounds of the model.                                                    *)
(***************************************************************************)
\* frames the JavaScript call stack holds before a RangeError is thrown
MaxStack == 6
\* nested asynchronous calls of the relative-path pass the model follows
MaxAsyncDepth == 8
\* resolve() calls in a row (the second one on the output of the first)
MaxRuns == 2

(***************************************************************************)
(* JavaScript values.                                                      *)
(***************************************************************************)
\* JavaScript truthiness of an option flag
Truthy(x) == x = "T"

\* the empty sequence, with the same TLC type wherever it is compared
Nil == << >>

\* whether x occurs in sequence s
InSeq(x, s) == \E i \in 1..Len(s) : s[i] = x

\* the sequence s without duplicates, first occurrences kept, in order
\* (the iteration order of `new Set(s)` over strings)
RECURSIVE Dedup(_)
Dedup(s) ==
  IF s = Nil THEN Nil
  ELSE LET front == Dedup(SubSeq(s, 1, Len(s) - 1))
           last == s[Len(s)]
       IN IF InSeq(last, front) THEN front ELSE Append(front, last)

\* an assignment that builds the object anew around the one key
OnlyKey(f, k, v) == [x \in {k} |-> v]

\* the function f with key k set to v (k added when absent)
Put(f, k, v) == [x \in DOMAIN f \cup {k} |-> IF x = k THEN v ELSE f[x]]

\* an object with no keys
EmptyMap == [x \in {} |-> 0]

(***************************************************************************)
(* References.                                                             *)
(***************************************************************************)
\* no `$ref` key
NoRef == [file |-> "", ptr |-> ""]

LocalRef(name) == [file |-> "", ptr |-> name]

FileRef(f, name) == [file |-> f, ptr |-> name]

\* utils.parseReferenceInSwagger: the file part and the local part of a `$ref`
parseReferenceInSwagger(ref) ==
  [filePath |-> ref.file, localReference |-> ref.ptr]

(***************************************************************************)
(* Schemas.                                                                *)
(***************************************************************************)
\* a schema at a property or a response: { $ref?, type?, enum?, oneOf?, x-nullable wrappers }
Prop(ref, type) ==
  [ref |-> ref, type |-> type, enum |-> Nil, oneOf |-> Nil, nullWraps |-> 0]

\* an item of an allOf array: { $ref } or an inline schema with `properties`
RefItem(ref) == [ref |-> ref, props |-> EmptyMap]

InlineItem(props) == [ref |-> NoRef, props |-> props]

\* a model schema of `definitions`; additionalProperties and
\* x-ms-azure-resource (azure) are "absent" or hold the text of their value
Model(props, parents) ==
  [ ref |-> NoRef,
    type |-> "object",
    hasProps |-> TRUE,
    props |-> props,
    hasAllOf |-> parents # Nil,
    allOf |-> parents,
    hasRequired |-> FALSE,
    required |-> Nil,
    discriminator |-> "",
    discValue |-> "absent",
    additionalProperties |-> "absent",
    azure |-> "absent" ]

(***************************************************************************)
(* Operations and the document.                                            *)
(***************************************************************************)
\* an entry of an operation's x-ms-examples: { $ref: "./examples/e.json" },
\* or the loaded content of that file once it is spliced in
Example(ref) == [ref |-> ref, body |-> ""]

\* an operation: `parameters` (names), `responses` (code -> the response's
\* schema) and `x-ms-examples` (name -> example)
Operation(hasParameters, parameters, responses, examples) ==
  [ hasParameters |-> hasParameters,
    parameters |-> parameters,
    hasResponses |-> TRUE,
    responses |-> responses,
    examples |-> examples ]

\* the parsed document specInJson
Document(paths, xmsPaths, order, defs, hostParams) ==
  [ hasPaths |-> TRUE,
    paths |-> paths,
    xmsPaths |-> xmsPaths,
    unified |-> {},
    hasDefinitions |-> TRUE,
    order |-> order,
    defs |-> defs,
    hasHost |-> hostParams # Nil,
    hasHostParams |-> hostParams # Nil,
    hostParams |-> hostParams ]

\* an external document the loader can return: a Swagger file with
\* `definitions`, a schema file (body) or an example file (example)
File(order, defs, body, example) ==
  [order |-> order, defs |-> defs, body |-> body, example |-> example]

(***************************************************************************)
(* Options (interface Options and the constructor's defaults).             *)
(***************************************************************************)
OptionNames ==
  { "shouldResolveRelativePaths", "shouldResolveXmsExamples",
    "shouldResolveAllOf", "shouldSetAdditionalPropertiesFalse",
    "shouldResolvePureObjects", "shouldResolveDiscriminator",
    "shouldResolveParameterizedHost", "shouldResolveNullableTypes",
    "shouldModelImplicitDefaultResponse" }

\* `if (options.k === null || options.k === undefined) options.k = v`
Default(o, k, v) == IF o[k] = "U" THEN [o EXCEPT ![k] = v] ELSE o

\* a constructor that does not force shouldResolveAllOf
LeaveAllOfAsPassed(raw, spec) ==
  LET o1 == Default(raw, "shouldResolveRelativePaths", "T")
      o2 == Default(o1, "shouldResolveXmsExamples", "T")
      o3 == IF o2.shouldResolveAllOf = "U" /\ spec.hasDefinitions
            THEN [o2 EXCEPT !.shouldResolveAllOf = "T"] ELSE o2
      o4 == Default(o3, "shouldSetAdditionalPropertiesFalse", o3.shouldResolveAllOf)
      o5 == Default(o4, "shouldResolvePureObjects", "T")
      o6 == Default(o5, "shouldResolveDiscriminator", o5.shouldResolveAllOf)
      o7 == Default(o6, "shouldResolveParameterizedHost", "T")
      o9 == Default(o7, "shouldResolveNullableTypes", o7.shouldResolveAllOf)
  IN Default(o9, "shouldModelImplicitDefaultResponse", "F")

\* the constructor's option handling, statement by statement
constructor(raw, spec) ==
  LET o1 == Default(raw, "shouldResolveRelativePaths", "T")
      o2 == Default(o1, "shouldResolveXmsExamples", "T")
      o3 == IF o2.shouldResolveAllOf = "U" /\ spec.hasDefinitions
            THEN [o2 EXCEPT !.shouldResolveAllOf = "T"] ELSE o2
      o4 == Default(o3, "shouldSetAdditionalPropertiesFalse", o3.shouldResolveAllOf)
      o5 == Default(o4, "shouldResolvePureObjects", "T")
      o6 == Default(o5, "shouldResolveDiscriminator", o5.shouldResolveAllOf)
      o7 == Default(o6, "shouldResolveParameterizedHost", "T")
      o8 == IF Truthy(o7.shouldResolveDiscriminator)
            THEN [o7 EXCEPT !.shouldResolveAllOf = "T"] ELSE o7
      o9 == Default(o8, "shouldResolveNullableTypes", o8.shouldResolveAllOf)
  IN Default(o9, "shouldModelImplicitDefaultResponse", "F")

(***************************************************************************)
(* The resolver's state.                                                   *)
(***************************************************************************)
VARIABLES
  specInJson,           \* the document being rewritten
  files,                \* the documents the loader holds and returns, by file name
  rawOptions,           \* the options the caller passed
  options,              \* this.options after the constructor
  visitedEntities,      \* local pointer -> spliced object
  resolvedAllOfModels,  \* model pointer -> composed model
  pc,                   \* the .then() of resolve() that runs next
  started,              \* the passes started so far, in order
  sync,                 \* the call stack of resolveAllOfInModel
  async,                \* the pending calls of the relative-path pass
  outcome,              \* what the promise of resolve() settled with
  run,                  \* which resolve() call this is
  calls,                \* how many times the caller calls resolve()
  received,             \* the document as this resolve() call received it
  invoked,              \* the method the caller called in place of resolve()
  composed,             \* the mergeParentAllOfInChild calls of this run, in order
  aliased               \* definitions of the tree that are objects of a loaded file

vars ==
  << specInJson, files, rawOptions, options, visitedEntities,
     resolvedAllOfModels, pc, started, sync, async, outcome, run, calls,
     received, invoked, composed, aliased >>

\* a chain that deletes the allOf keys before the discriminator pass
resolveDeletingFirst ==
  << << "unifyXmsPaths", "" >>,
     << "resolveRelativePaths", "shouldResolveRelativePaths" >>,
     << "resolveAllOfInDefinitions", "shouldResolveAllOf" >>,
     << "deleteReferencesToAllOf", "shouldResolveAllOf" >>,
     << "resolveDiscriminator", "shouldResolveDiscriminator" >>,
     << "setAdditionalPropertiesFalse", "shouldSetAdditionalPropertiesFalse" >>,
     << "resolveParameterizedHost", "shouldResolveParameterizedHost" >>,
     << "resolvePureObjects", "shouldResolvePureObjects" >>,
     << "resolveNullableTypes", "shouldResolveNullableTypes" >>,
     << "modelImplicitDefaultResponse", "shouldModelImplicitDefaultResponse" >> >>

\* the .then() chain of resolve(): each callback's pass and the option
\* that gates it ("" for unifyXmsPaths, which the chain starts with)
resolve ==
  << << "unifyXmsPaths", "" >>,
     << "resolveRelativePaths", "shouldResolveRelativePaths" >>,
     << "resolveAllOfInDefinitions", "shouldResolveAllOf" >>,
     << "resolveDiscriminator", "shouldResolveDiscriminator" >>,
     << "deleteReferencesToAllOf", "shouldResolveAllOf" >>,
     << "setAdditionalPropertiesFalse", "shouldSetAdditionalPropertiesFalse" >>,
     << "resolveParameterizedHost", "shouldResolveParameterizedHost" >>,
     << "resolvePureObjects", "shouldResolvePureObjects" >>,
     << "resolveNullableTypes", "shouldResolveNullableTypes" >>,
     << "modelImplicitDefaultResponse", "shouldModelImplicitDefaultResponse" >> >>

\* the position of pass p in the chain
ChainIndex(p) == CHOOSE i \in 1..Len(resolve) : resolve[i][1] = p

\* a chain whose callbacks call their pass whatever the option says
AlwaysCalled(p) == TRUE

\* whether the callback of pass p calls the pass or returns Promise.resolve(self)
Gated(p) ==
  LET g == resolve[ChainIndex(p)][2] IN g = "" \/ Truthy(options[g])

\* the callback that runs once the promise of pass p has fulfilled
After(p) ==
  IF ChainIndex(p) = Len(resolve) THEN "fulfilled" ELSE resolve[ChainIndex(p) + 1][1]

\* the caller has called no method of the resolver but resolve()
NotInvoked ==
  [ method |-> "", given |-> FALSE, modelNames |-> Nil, force |-> FALSE, err |-> "",
    tree |-> [name |-> "", children |-> Nil],     \* the node a method was called on
    node |-> [name |-> "", children |-> Nil],     \* the node after the call
    childName |-> [type |-> "undefined", text |-> ""] ]

\* no resolve() outcome yet
Pending ==
  [state |-> "pending", code |-> "", specPath |-> "", innerErrors |-> Nil, value |-> ""]

\* the object the .catch() of resolve() rejects with
ResolveSpecError(err) ==
  [ state |-> "rejected",
    code |-> "ResolveSpecError",
    specPath |-> "host.json",
    innerErrors |-> << err >>,
    value |-> "" ]


(***************************************************************************)
(* TreeOps of ../util/utils (not part of this file).                       *)
(***************************************************************************)
\* utils.mergeObjects(source, target): the union of the keys; a key of both
\* keeps the target's value, a key of the source alone gets a copy
mergeObjects(source, target) ==
  [k \in DOMAIN source \cup DOMAIN target |->
     IF k \in DOMAIN target THEN target[k] ELSE source[k]]

\* utils.getObject(spec, "/definitions/<name>") for the `$ref` ref: the value
\* found, or found = FALSE (undefined) when the pointer leads nowhere
getObject(spec, ref) ==
  IF ref.file = "" /\ spec.hasDefinitions /\ ref.ptr \in DOMAIN spec.defs
  THEN [found |-> TRUE, value |-> spec.defs[ref.ptr]]
  ELSE [found |-> FALSE, value |-> Model(EmptyMap, Nil)]

\* utils.setObject(spec, "/definitions/<name>", model): a new key is added
\* after the existing ones, intermediate objects are created
setObject(spec, name, model) ==
  [spec EXCEPT !.hasDefinitions = TRUE,
               !.order = IF InSeq(name, @) THEN @ ELSE Append(@, name),
               !.defs = Put(@, name, model)]

\* utils.getKeys(spec.definitions): [] when `definitions` is undefined
DefinitionKeys(spec) == IF spec.hasDefinitions THEN spec.order ELSE Nil

\* the operations of spec.paths: getValues(paths) x getValues(verbs)
OperationKeys(spec) ==
  IF spec.hasPaths
  THEN UNION {{<<p, v>> : v \in DOMAIN spec.paths[p]} : p \in DOMAIN spec.paths}
  ELSE {}

\* what a pass hands back: the tree as it left it and the error it threw
Returned(spec) == [spec |-> spec, err |-> ""]

Threw(spec, err) == [spec |-> spec, err |-> err]

(***************************************************************************)
(* The passes that run to completion without a call back into the chain.   *)
(***************************************************************************)
\* unifyXmsPaths: every key of x-ms-paths is written into paths. The value
\* is assigned, not copied: from then on paths[k] and x-ms-paths[k] are one
\* object (spec.unified holds these k), so a later assignment of the same
\* object changes nothing
unifyXmsPaths(spec) ==
  IF DOMAIN spec.xmsPaths # {}
  THEN IF ~spec.hasPaths
       THEN Threw(spec, "TypeError")   \* paths[property] on undefined
       ELSE LET assigned ==
                  [k \in DOMAIN spec.paths \cup DOMAIN spec.xmsPaths |->
                     IF k \in DOMAIN spec.xmsPaths \ spec.unified THEN spec.xmsPaths[k]
                     ELSE spec.paths[k]]
            IN Returned([spec EXCEPT !.paths = mergeObjects(spec.xmsPaths, assigned),
                                     !.unified = DOMAIN spec.xmsPaths])
  ELSE Returned(spec)

\* a merge that leaves the child as it is
KeepChild(parent, child) == child

\* a merge that puts the child's required names before the parent's
ChildRequiredFirst(parent, child) ==
  LET parentProps == IF parent.hasProps THEN parent.props ELSE EmptyMap
      childProps == IF child.hasProps THEN child.props ELSE EmptyMap
      merged == [child EXCEPT !.hasProps = TRUE,
                              !.props = mergeObjects(parentProps, childProps)]
      withRequired ==
        IF parent.hasRequired
        THEN [merged EXCEPT !.hasRequired = TRUE,
                            !.required = Dedup(child.required \o parent.required)]
        ELSE merged
  IN IF parent.azure = "true" THEN [withRequired EXCEPT !.azure = parent.azure]
     ELSE withRequired

\* mergeParentAllOfInChild: the child after the merge
mergeParentAllOfInChild(parent, child) ==
  LET parentProps == IF parent.hasProps THEN parent.props ELSE EmptyMap
      childProps == IF child.hasProps THEN child.props ELSE EmptyMap
      merged == [child EXCEPT !.hasProps = TRUE,
                              !.props = mergeObjects(parentProps, childProps)]
      withRequired ==
        IF parent.hasRequired
        THEN [merged EXCEPT !.hasRequired = TRUE,
                            !.required = Dedup(parent.required \o child.required)]
        ELSE merged
  IN IF parent.azure = "true" THEN [withRequired EXCEPT !.azure = parent.azure]
     ELSE withRequired

\* mergeParentAllOfInChild: what it leaves of the parent (`properties`
\* is created when absent)
MergedParent(parent) == [parent EXCEPT !.hasProps = TRUE]

\* deleteReferencesToAllOf
deleteReferencesToAllOf(spec) ==
  Returned([spec EXCEPT !.defs =
    [m \in DOMAIN spec.defs |->
       IF spec.defs[m].hasAllOf
       THEN [spec.defs[m] EXCEPT !.hasAllOf = FALSE, !.allOf = Nil]
       ELSE spec.defs[m]]])

\* a pass that closes every named model, whatever additionalProperties it has
CloseEveryModel(spec, modelNames, force) ==
  Returned([spec EXCEPT !.defs =
    [m \in DOMAIN spec.defs |->
       IF InSeq(m, modelNames)
       THEN [spec.defs[m] EXCEPT !.additionalProperties = "false"]
       ELSE spec.defs[m]]])

\* setAdditionalPropertiesFalse(modelNames, force)
setAdditionalPropertiesFalse(spec, modelNames, force) ==
  Returned([spec EXCEPT !.defs =
    [m \in DOMAIN spec.defs |->
       LET model == spec.defs[m] IN
       IF /\ InSeq(m, modelNames)
          /\ \/ force
             \/ /\ model.additionalProperties \in {"absent", "false"}
                /\ ~(~model.hasProps \/ DOMAIN model.props = {})
       THEN [model EXCEPT !.additionalProperties = "false"]
       ELSE model]])

\* a pass that puts the host parameters in front of the operation's own
HostParametersFirst(spec) ==
  IF spec.hasHost /\ spec.hasHostParams
  THEN Returned([spec EXCEPT !.paths =
         [p \in DOMAIN spec.paths |->
            [v \in DOMAIN spec.paths[p] |->
               [spec.paths[p][v] EXCEPT !.hasParameters = TRUE,
                                        !.parameters = spec.hostParams \o @]]]])
  ELSE Returned(spec)

\* resolveParameterizedHost
resolveParameterizedHost(spec) ==
  IF spec.hasHost /\ spec.hasHostParams
  THEN Returned([spec EXCEPT !.paths =
         [p \in DOMAIN spec.paths |->
            [v \in DOMAIN spec.paths[p] |->
               LET operation == spec.paths[p][v]
                   operationParameters ==
                     IF operation.hasParameters THEN operation.parameters ELSE Nil
               IN [operation EXCEPT !.hasParameters = TRUE,
                                    !.parameters = operationParameters \o spec.hostParams]]]])
  ELSE Returned(spec)

\* utils.relaxModelLikeEntities on a model: an object schema without
\* properties and without additionalProperties accepts anything
relaxModelLikeEntities(model) ==
  IF /\ model.type = "object"
     /\ (~model.hasProps \/ DOMAIN model.props = {})
     /\ model.additionalProperties = "absent"
  THEN [model EXCEPT !.additionalProperties = "true"]
  ELSE model

\* resolvePureObjects: every model of definitions is relaxed
resolvePureObjects(spec) ==
  Returned([spec EXCEPT !.defs =
    [m \in DOMAIN spec.defs |-> relaxModelLikeEntities(spec.defs[m])]])

\* utils.allowNullableTypes on a model: a property that is not required is
\* wrapped into oneOf [property, {type: null}]
allowNullableTypes(model) ==
  [model EXCEPT !.props =
    [k \in DOMAIN model.props |->
       IF InSeq(k, model.required) THEN model.props[k]
       ELSE [model.props[k] EXCEPT !.nullWraps = @ + 1]]]

\* resolveNullableTypes: every model of definitions
resolveNullableTypes(spec) ==
  Returned([spec EXCEPT !.defs =
    [m \in DOMAIN spec.defs |-> allowNullableTypes(spec.defs[m])]])

\* utils.CloudError and utils.CloudErrorWrapper
CloudError == Model("code" :> Prop(NoRef, "string"), Nil)

CloudErrorWrapper == Model("error" :> Prop(LocalRef("CloudError"), ""), Nil)

\* utils.CloudErrorSchema: the schema of the injected default response
CloudErrorSchema == Prop(LocalRef("CloudErrorWrapper"), "")

\* a pass that gives every operation the canonical default response
DefaultEverywhere(spec) ==
  IF ~spec.hasDefinitions
  THEN Threw(spec, "TypeError")
  ELSE Returned([setObject(setObject(spec, "CloudErrorWrapper", CloudErrorWrapper),
                           "CloudError", CloudError)
                   EXCEPT !.paths =
                     [p \in DOMAIN spec.paths |->
                        [v \in DOMAIN spec.paths[p] |->
                           [spec.paths[p][v] EXCEPT !.responses =
                              Put(@, "default", CloudErrorSchema)]]]])

\* modelImplicitDefaultResponse
modelImplicitDefaultResponse(spec) ==
  IF ~spec.hasDefinitions
  THEN Threw(spec, "TypeError")   \* spec.definitions.CloudError on undefined
  ELSE LET withError ==
             IF "CloudError" \notin DOMAIN spec.defs
             THEN setObject(setObject(spec, "CloudErrorWrapper", CloudErrorWrapper),
                            "CloudError", CloudError)
             ELSE spec
       IN Returned([withError EXCEPT !.paths =
            [p \in DOMAIN withError.paths |->
               [v \in DOMAIN withError.paths[p] |->
                  LET operation == withError.paths[p][v] IN
                  IF operation.hasResponses /\ "default" \notin DOMAIN operation.responses
                  THEN [operation EXCEPT !.responses = Put(@, "default", CloudErrorSchema)]
                  ELSE operation]]])

(***************************************************************************)
(* Locations of `$ref`s (the keys of JsonRefs.findRefs).                   *)
(***************************************************************************)
\* the array index i as it is written in a JSON pointer
IndexName(i) == CASE i = 1 -> "0" [] i = 2 -> "1" [] i = 3 -> "2" [] OTHER -> "3"

\* "#/definitions/<m>/properties/<p>"
PropLoc(m, p) == [k |-> "properties", a |-> m, b |-> p, c |-> "", i |-> 0]

\* "#/definitions/<m>/allOf/<i>"
AllOfLoc(m, i) == [k |-> "allOf", a |-> m, b |-> IndexName(i), c |-> "", i |-> i]

\* "#/definitions/<m>"
DefLoc(m) == [k |-> "definitions", a |-> m, b |-> "", c |-> "", i |-> 0]

\* "#/paths/<path>/<verb>/responses/<code>/schema"
ResponseLoc(path, verb, code) == [k |-> "responses", a |-> path, b |-> verb, c |-> code, i |-> 0]

\* "#/paths/<path>/<verb>/x-ms-examples/<name>"
ExampleLoc(path, verb, name) == [k |-> "x-ms-examples", a |-> path, b |-> verb, c |-> name, i |-> 0]

\* the segments of the JSON pointer of a location
Pointer(loc) ==
  CASE loc.k = "properties" -> << "definitions", loc.a, "properties", loc.b >>
    [] loc.k = "allOf" -> << "definitions", loc.a, "allOf", loc.b >>
    [] loc.k = "definitions" -> << "definitions", loc.a >>
    [] loc.k = "responses" -> << "paths", loc.a, loc.b, "responses", loc.c, "schema" >>
    [] OTHER -> << "paths", loc.a, loc.b, "x-ms-examples", loc.c >>

\* the names of the model that contain the text `sub`
Containing(sub) ==
  CASE sub = "allOf" -> {"allOf"}
    [] sub = "oneOf" -> {"oneOf", "ZoneOfPets"}
    [] OTHER -> {"x-ms-examples"}

\* key.indexOf(sub) !== -1 on the pointer of a location: no segment holds
\* a "/", so the text is found when one segment contains it
IndexOf(loc, sub) == \E i \in 1..Len(Pointer(loc)) : Pointer(loc)[i] \in Containing(sub)

\* JsonRefs.findRefs(spec): location -> the `$ref` found there
findRefs(spec) ==
  LET defRefs == {<<DefLoc(m), spec.defs[m].ref>> : m \in DOMAIN spec.defs}
      propRefs ==
        UNION {{<<PropLoc(m, p), spec.defs[m].props[p].ref>> : p \in DOMAIN spec.defs[m].props}
               : m \in DOMAIN spec.defs}
      allOfRefs ==
        UNION {{<<AllOfLoc(m, i), spec.defs[m].allOf[i].ref>> : i \in 1..Len(spec.defs[m].allOf)}
               : m \in DOMAIN spec.defs}
      responseRefs ==
        UNION {{<<ResponseLoc(o[1], o[2], c), spec.paths[o[1]][o[2]].responses[c].ref>>
                 : c \in DOMAIN spec.paths[o[1]][o[2]].responses}
               : o \in OperationKeys(spec)}
      exampleRefs ==
        UNION {{<<ExampleLoc(o[1], o[2], e), spec.paths[o[1]][o[2]].examples[e].ref>>
                 : e \in DOMAIN spec.paths[o[1]][o[2]].examples}
               : o \in OperationKeys(spec)}
      all == defRefs \cup propRefs \cup allOfRefs \cup responseRefs \cup exampleRefs
  IN {r \in all : r[2] # NoRef}

(***************************************************************************)
(* class PolymorphicTree.                                                  *)
(***************************************************************************)
\* new PolymorphicTree(name): children is a Map, kept in insertion order
PolymorphicTree(name) == [name |-> name, children |-> Nil]

\* children.has(name)
HasChild(node, name) == \E i \in 1..Len(node.children) : node.children[i].name = name

\* addChildByName(childName): the node after the call and the error
\* thrown. childName is a JavaScript value: null, undefined, a string, a
\* number, or an object that is no string and has a trim() method
addChildByName(node, childName) ==
  LET trimmed == IF childName.text \in {"", " "} THEN "" ELSE childName.text
  IN IF childName.type \in {"null", "undefined"}
     THEN [node |-> node, err |-> "Error"]
     ELSE IF childName.type = "string"          \* typeof childName.valueOf() === 'string'
     THEN [node |-> node, err |-> "Error"]
     ELSE IF childName.type = "number"          \* childName.trim is not a function
     THEN [node |-> node, err |-> "TypeError"]
     ELSE IF trimmed = ""
     THEN [node |-> node, err |-> "Error"]
     \* the keys of `children` are strings, so has(childName) is false for
     \* an object, and new PolymorphicTree(childName) throws
     ELSE [node |-> node, err |-> "Error"]

\* addChildByObject: the node after the call
addChildByObject(node, childObj) ==
  IF ~HasChild(node, childObj.name)
  THEN [node EXCEPT !.children = Append(@, childObj)]
  ELSE node

\* subTreeMap.get(name) is defined
MapHas(map, name) == \E i \in 1..Len(map) : map[i].name = name

\* subTreeMap.set(name, node): a key that exists keeps its place
MapSet(map, node) ==
  IF MapHas(map, node.name)
  THEN [i \in 1..Len(map) |-> IF map[i].name = node.name THEN node ELSE map[i]]
  ELSE Append(map, node)

(***************************************************************************)
(* resolveDiscriminator and its helpers.                                   *)
(***************************************************************************)
\* findChildren(name): the definitions, in key order, whose allOf holds an
\* item with $ref === "#/definitions/<name>"
findChildren(spec, name) ==
  LET keys == DefinitionKeys(spec)
      isChild(d) ==
        /\ spec.defs[d].hasAllOf
        /\ \E i \in 1..Len(spec.defs[d].allOf) : spec.defs[d].allOf[i].ref = LocalRef(name)
  IN SelectSeq(keys, isChild)

\* the enum constraint createPolymorphicTree puts on definitions[name]
\* .properties[discriminator]
DiscriminatorEnum(spec, name, discriminator) ==
  IF /\ spec.hasDefinitions /\ name \in DOMAIN spec.defs
     /\ spec.defs[name].hasProps
     /\ discriminator \in DOMAIN spec.defs[name].props
  THEN LET val == IF spec.defs[name].discValue \notin {"absent", ""}
                  THEN spec.defs[name].discValue ELSE name
       IN [spec EXCEPT !.defs[name].props[discriminator] =
             [@ EXCEPT !.ref = NoRef,
                       !.type = IF @ = "" THEN "string" ELSE @,
                       !.enum = << val >>]]
  ELSE spec

\* createPolymorphicTree(name, discriminator, subTreeMap) at call depth
\* `depth`: st holds the tree, subTreeMap and the error thrown so far
RECURSIVE createPolymorphicTree(_, _, _, _)
RECURSIVE CreateChildren(_, _, _, _, _)
createPolymorphicTree(st, name, discriminator, depth) ==
  IF depth > MaxStack
  THEN [st |-> [st EXCEPT !.err = "RangeError"], node |-> PolymorphicTree(name)]
  ELSE LET rootNode == PolymorphicTree(name)
           edited == [st EXCEPT !.spec = DiscriminatorEnum(st.spec, name, discriminator)]
           children == findChildren(edited.spec, name)
           built == CreateChildren(edited, rootNode, children, discriminator, depth)
       IN IF built.st.err # "" THEN built
          ELSE [st |-> [built.st EXCEPT !.subTreeMap = MapSet(@, built.node)],
                node |-> built.node]

\* the loop of createPolymorphicTree over the children found
CreateChildren(st, rootNode, children, discriminator, depth) ==
  IF children = Nil \/ st.err # "" THEN [st |-> st, node |-> rootNode]
  ELSE LET childObj == createPolymorphicTree(st, Head(children), discriminator, depth + 1)
       IN CreateChildren(childObj.st, addChildByObject(rootNode, childObj.node),
                         Tail(children), discriminator, depth)

\* buildOneOfReferences(rootNode): a Set of freshly made { $ref } objects,
\* which are all distinct members of the Set
RECURSIVE buildOneOfReferences(_)
RECURSIVE BuildChildren(_, _)
buildOneOfReferences(rootNode) ==
  BuildChildren(<< LocalRef(rootNode.name) >>, rootNode.children)

\* the loop of buildOneOfReferences over rootNode.children.entries()
BuildChildren(result, children) ==
  IF children = Nil THEN result
  ELSE BuildChildren(result \o buildOneOfReferences(Head(children)), Tail(children))

\* the object at a location gets `oneOf` and loses `$ref`
SetOneOf(spec, loc, oneOf) ==
  CASE loc.k = "properties" /\ loc.a \in DOMAIN spec.defs ->
         IF loc.b \in DOMAIN spec.defs[loc.a].props
         THEN [spec EXCEPT !.defs[loc.a].props[loc.b] = [@ EXCEPT !.ref = NoRef, !.oneOf = oneOf]]
         ELSE spec
    [] loc.k = "responses" ->
         [spec EXCEPT !.paths[loc.a][loc.b].responses[loc.c] =
                        [@ EXCEPT !.ref = NoRef, !.oneOf = oneOf]]
    [] OTHER -> spec

\* the locations updateReferencesWithOneOf rewrites for one node
locationsToBeUpdated(node, references) ==
  {r[1] : r \in {x \in references :
                   /\ x[2] = LocalRef(node.name)
                   /\ ~IndexOf(x[1], "allOf")
                   /\ ~IndexOf(x[1], "oneOf")}}

\* the rewrite of a set of locations, one after the other
RECURSIVE UpdateLocations(_, _, _)
UpdateLocations(spec, locations, oneOf) ==
  IF locations = {} THEN spec
  ELSE LET loc == CHOOSE l \in locations : TRUE
       IN UpdateLocations(SetOneOf(spec, loc, oneOf), locations \ {loc}, oneOf)

\* a rewrite for every node of the map, the leaves too
RECURSIVE RewriteEveryNode(_, _, _, _)
RewriteEveryNode(spec, subTreeMap, references, i) ==
  IF i > Len(subTreeMap) THEN spec
  ELSE RewriteEveryNode(
         UpdateLocations(spec, locationsToBeUpdated(subTreeMap[i], references),
                         buildOneOfReferences(subTreeMap[i])),
         subTreeMap, references, i + 1)

\* updateReferencesWithOneOf(subTreeMap, references), from node i of the map on
RECURSIVE updateReferencesWithOneOf(_, _, _, _)
updateReferencesWithOneOf(spec, subTreeMap, references, i) ==
  IF i > Len(subTreeMap) THEN spec
  ELSE LET node == subTreeMap[i]
           updated ==
             IF Len(node.children) > 0
             THEN UpdateLocations(spec, locationsToBeUpdated(node, references),
                                  buildOneOfReferences(node))
             ELSE spec
       IN updateReferencesWithOneOf(updated, subTreeMap, references, i + 1)

\* the loop of resolveDiscriminator over modelNames
RECURSIVE DiscriminatorLoop(_, _, _)
DiscriminatorLoop(st, modelNames, references) ==
  IF modelNames = Nil \/ st.err # "" THEN st
  ELSE LET modelName == Head(modelNames)
           model == st.spec.defs[modelName]
       IN IF model.discriminator # ""
          THEN LET made == IF MapHas(st.subTreeMap, modelName) THEN st
                           ELSE createPolymorphicTree(st, modelName, model.discriminator, 1).st
               IN IF made.err # "" THEN made
                  ELSE DiscriminatorLoop(
                         [made EXCEPT !.spec =
                            updateReferencesWithOneOf(made.spec, made.subTreeMap, references, 1)],
                         Tail(modelNames), references)
          ELSE DiscriminatorLoop(st, Tail(modelNames), references)

\* resolveDiscriminator
resolveDiscriminator(spec) ==
  LET st == DiscriminatorLoop([spec |-> spec, subTreeMap |-> Nil, err |-> ""],
                              DefinitionKeys(spec), findRefs(spec))
  IN [spec |-> st.spec, err |-> st.err]

(***************************************************************************)
(* Objects the tree shares with the documents of the loader.               *)
(***************************************************************************)
\* the object of file f that a definition of the tree is: definition
\* `name` of the file, or the whole document (name = "")
ObjectOf(f, name) == [file |-> f, name |-> name]

\* the documents of the loader once the tree has become `spec`: no copy is
\* made when a definition is spliced, so an assignment to a field of a
\* definition that is an object of a file is an assignment in the file
SharedWithLoader(spec, shared, docs) ==
  [f \in DOMAIN docs |->
     LET whole == {n \in DOMAIN shared :
                     shared[n] = ObjectOf(f, "") /\ n \in DOMAIN spec.defs}
     IN [docs[f] EXCEPT
           !.defs = [n \in DOMAIN @ |->
                       IF /\ n \in DOMAIN shared /\ shared[n] = ObjectOf(f, n)
                          /\ n \in DOMAIN spec.defs
                       THEN spec.defs[n] ELSE @[n]],
           !.body = IF whole = {} THEN @ ELSE spec.defs[CHOOSE n \in whole : TRUE]]]

(***************************************************************************)
(* The .then() callbacks of resolve() and its .catch().                    *)
(***************************************************************************)
\* the promise of resolve() fulfils with `value`
Fulfilled(value) ==
  [state |-> "fulfilled", code |-> "", specPath |-> "", innerErrors |-> Nil, value |-> value]

\* the chain goes on to the callback `next`, or fulfils after the last one
Continue(next, value) ==
  /\ pc' = next
  /\ outcome' = IF next = "fulfilled" THEN Fulfilled(value) ELSE outcome

\* a chain without .catch(): the error is dropped and the chain fulfils
Swallow(err) ==
  /\ pc' = "fulfilled"
  /\ outcome' = Fulfilled("self")

\* the .catch() callback: every later .then() is skipped
Catch(err) ==
  /\ pc' = "rejected"
  /\ outcome' = ResolveSpecError(err)

\* the callback of a pass that runs to completion: r is what the pass
\* returns when it is called
Callback(p, r, value) ==
  /\ pc = p
  /\ IF Gated(p)
     THEN /\ started' = Append(started, p)
          /\ specInJson' = r.spec
          /\ IF p = "resolveNullableTypes"
             THEN \* definitions[defName] = utils.allowNullableTypes(model):
                  \* the value returned takes the place of the object
                  /\ aliased' = EmptyMap
                  /\ UNCHANGED files
             ELSE /\ files' = SharedWithLoader(r.spec, aliased, files)
                  /\ UNCHANGED aliased
          /\ IF r.err = "" THEN Continue(After(p), value) ELSE Catch(r.err)
     ELSE /\ Continue(After(p), "self")
          /\ UNCHANGED << started, specInJson, files, aliased >>
  /\ UNCHANGED << rawOptions, options, visitedEntities, resolvedAllOfModels,
                  sync, async, run, calls, received, invoked, composed >>

ThenUnifyXmsPaths ==
  Callback("unifyXmsPaths", unifyXmsPaths(specInJson), "self")

ThenResolveDiscriminator ==
  Callback("resolveDiscriminator", resolveDiscriminator(specInJson), "self")

ThenDeleteReferencesToAllOf ==
  Callback("deleteReferencesToAllOf", deleteReferencesToAllOf(specInJson), "self")

ThenSetAdditionalPropertiesFalse ==
  Callback("setAdditionalPropertiesFalse",
           setAdditionalPropertiesFalse(specInJson, DefinitionKeys(specInJson), FALSE), "self")

ThenResolveParameterizedHost ==
  Callback("resolveParameterizedHost", resolveParameterizedHost(specInJson), "self")

ThenResolvePureObjects ==
  Callback("resolvePureObjects", resolvePureObjects(specInJson), "self")

ThenResolveNullableTypes ==
  Callback("resolveNullableTypes", resolveNullableTypes(specInJson), "self")

\* modelImplicitDefaultResponse returns nothing: the chain fulfils with undefined
ThenModelImplicitDefaultResponse ==
  Callback("modelImplicitDefaultResponse", modelImplicitDefaultResponse(specInJson), "undefined")

(***************************************************************************)
(* resolveAllOfInDefinitions, call by call.                                *)
(***************************************************************************)
\* no resolveAllOfInModel call is running
Idle == [active |-> FALSE, queue |-> Nil, stack |-> Nil]

\* the call resolveAllOfInModel(definitions[modelRef], modelRef)
Call(modelRef) == [modelRef |-> modelRef, phase |-> "enter", i |-> 1]

Top(stack) == stack[Len(stack)]

Pop(stack) == SubSeq(stack, 1, Len(stack) - 1)

ReplaceTop(stack, frame) == [stack EXCEPT ![Len(stack)] = frame]

\* the key of resolvedAllOfModels an allOf item is recorded under:
\* slicedRef is undefined for an item without `$ref`
SlicedRef(item) == IF item.ref = NoRef THEN "undefined" ELSE item.ref.ptr

\* the callback of resolveAllOfInDefinitions: the map over modelNames starts
ThenResolveAllOfInDefinitions ==
  /\ pc = "resolveAllOfInDefinitions"
  /\ ~sync.active
  /\ IF Gated("resolveAllOfInDefinitions")
     THEN /\ started' = Append(started, "resolveAllOfInDefinitions")
          /\ sync' = [active |-> TRUE, queue |-> DefinitionKeys(specInJson), stack |-> Nil]
          /\ UNCHANGED << pc, outcome >>
     ELSE /\ Continue(After("resolveAllOfInDefinitions"), "self")
          /\ UNCHANGED << started, sync >>
  /\ UNCHANGED << specInJson, files, rawOptions, options, visitedEntities,
                  resolvedAllOfModels, async, run, calls, received, invoked, composed, aliased >>

\* modelNames.map: resolveAllOfInModel is called for the next model name
MapResolveAllOfInModel ==
  /\ sync.active /\ sync.stack = Nil /\ sync.queue # Nil
  /\ sync' = [sync EXCEPT !.queue = Tail(@), !.stack = << Call(Head(sync.queue)) >>]
  /\ UNCHANGED << specInJson, files, rawOptions, options, visitedEntities,
                  resolvedAllOfModels, pc, started, async, outcome, run, calls, received, invoked,
                  composed, aliased >>

\* resolveAllOfInModel up to its first allOf item: a model found in
\* resolvedAllOfModels returns at once, one without allOf is recorded
EnterResolveAllOfInModel ==
  /\ sync.active /\ sync.stack # Nil /\ Top(sync.stack).phase = "enter"
  /\ LET frame == Top(sync.stack)
         model == specInJson.defs[frame.modelRef]
     IN IF frame.modelRef \in DOMAIN resolvedAllOfModels
        THEN /\ sync' = [sync EXCEPT !.stack = Pop(@)]
             /\ UNCHANGED resolvedAllOfModels
        ELSE IF model.hasAllOf
        THEN /\ sync' = [sync EXCEPT !.stack = ReplaceTop(@, [frame EXCEPT !.phase = "item"])]
             /\ UNCHANGED resolvedAllOfModels
        ELSE /\ sync' = [sync EXCEPT !.stack = Pop(@)]
             /\ resolvedAllOfModels' = Put(resolvedAllOfModels, frame.modelRef, model)
  /\ UNCHANGED << specInJson, files, rawOptions, options, visitedEntities,
                  pc, started, async, outcome, run, calls, received, invoked, composed, aliased >>

\* the next item of model.allOf is dereferenced; a referenced model that
\* has an allOf itself is resolved first, by a nested call
ItemOfAllOf ==
  /\ sync.active /\ sync.stack # Nil /\ Top(sync.stack).phase = "item"
  /\ LET frame == Top(sync.stack)
         model == specInJson.defs[frame.modelRef]
     IN IF frame.i > Len(model.allOf)
        THEN /\ sync' = [sync EXCEPT !.stack = Pop(@)]
             /\ UNCHANGED << pc, outcome >>
        ELSE LET item == model.allOf[frame.i]
                 referenced == getObject(specInJson, item.ref)
                 waiting == ReplaceTop(sync.stack, [frame EXCEPT !.phase = "merge"])
             IN IF item.ref = NoRef
                THEN /\ sync' = [sync EXCEPT !.stack = waiting]
                     /\ UNCHANGED << pc, outcome >>
                ELSE IF ~referenced.found
                THEN /\ Catch("TypeError")     \* referencedModel.allOf on undefined
                     /\ sync' = Idle
                ELSE IF ~referenced.value.hasAllOf
                THEN /\ sync' = [sync EXCEPT !.stack = waiting]
                     /\ UNCHANGED << pc, outcome >>
                ELSE IF Len(sync.stack) < MaxStack
                THEN /\ sync' = [sync EXCEPT !.stack = Append(waiting, Call(item.ref.ptr))]
                     /\ UNCHANGED << pc, outcome >>
                ELSE /\ Catch("RangeError")    \* Maximum call stack size exceeded
                     /\ sync' = Idle
  /\ UNCHANGED << specInJson, files, rawOptions, options, visitedEntities,
                  resolvedAllOfModels, started, async, run, calls, received, invoked,
                  composed, aliased >>

\* the referenced model, an inline item read as a model
ReferencedModel(spec, item) ==
  IF item.ref = NoRef THEN Model(item.props, Nil) ELSE spec.defs[item.ref.ptr]

\* the referenced model is merged into the model and recorded as resolved
MergeItemOfAllOf ==
  /\ sync.active /\ sync.stack # Nil /\ Top(sync.stack).phase = "merge"
  /\ LET frame == Top(sync.stack)
         item == specInJson.defs[frame.modelRef].allOf[frame.i]
         parent == MergedParent(ReferencedModel(specInJson, item))
         withParent == IF item.ref = NoRef THEN specInJson
                       ELSE [specInJson EXCEPT !.defs[item.ref.ptr] = parent]
         child == mergeParentAllOfInChild(parent, withParent.defs[frame.modelRef])
         merged == [withParent EXCEPT !.defs[frame.modelRef] = child]
     IN /\ specInJson' = merged
        /\ files' = SharedWithLoader(merged, aliased, files)
        /\ composed' = Append(composed, [parent |-> SlicedRef(item), child |-> frame.modelRef,
                                         i |-> frame.i])
        /\ resolvedAllOfModels' =
             Put(resolvedAllOfModels, SlicedRef(item), ReferencedModel(merged, item))
        /\ sync' = [sync EXCEPT !.stack =
                      ReplaceTop(@, [frame EXCEPT !.phase = "item", !.i = @ + 1])]
  /\ UNCHANGED << rawOptions, options, visitedEntities,
                  pc, started, async, outcome, run, calls, received, invoked, aliased >>

\* resolveAllOfInDefinitions returns self
ReturnResolveAllOfInDefinitions ==
  /\ sync.active /\ sync.stack = Nil /\ sync.queue = Nil
  /\ sync' = Idle
  /\ Continue(After("resolveAllOfInDefinitions"), "self")
  /\ UNCHANGED << specInJson, files, rawOptions, options, visitedEntities,
                  resolvedAllOfModels, started, async, run, calls, received, invoked,
                  composed, aliased >>

(***************************************************************************)
(* resolveRelativePaths and resolveRelativeReference, await by await.      *)
(***************************************************************************)
\* the members of a set of names in a fixed order (the key order of a JSON
\* object of the input)
RECURSIVE KeyOrder(_)
KeyOrder(S) ==
  IF S = {} THEN Nil
  ELSE LET x == CHOOSE y \in S : TRUE IN << x >> \o KeyOrder(S \ {x})

\* the concatenation of f(x) for the x of sequence s, in order
RECURSIVE FlatMap(_, _)
FlatMap(f(_), s) == IF s = Nil THEN Nil ELSE f(Head(s)) \o FlatMap(f, Tail(s))

\* whether findRefs keeps a `$ref` under the filter: ['relative', 'remote']
\* keeps the ones with a file part, no filter keeps them all
Kept(ref, filterType) == ref # NoRef /\ (filterType = "all" \/ ref.file # "")

\* one entry of findRefs: the location (refName) and the object there (refDetails.def)
Entry(loc, node) == [loc |-> loc, node |-> node]

NoEntry == Entry(DefLoc(""), Example(NoRef))

\* findRefs over one model, in document order: its properties, then its allOf
RefsOfModel(m, model, filterType) ==
  LET ofProp(p) == IF Kept(model.props[p].ref, filterType)
                   THEN << Entry(PropLoc(m, p), model.props[p]) >> ELSE Nil
      ofItem(i) == IF Kept(model.allOf[i].ref, filterType)
                   THEN << Entry(AllOfLoc(m, i), model.allOf[i]) >> ELSE Nil
  IN FlatMap(ofProp, KeyOrder(DOMAIN model.props))
     \o FlatMap(ofItem, [i \in 1..Len(model.allOf) |-> i])

\* findRefs over the host document, in document order: paths, then definitions
RefsOfDocument(spec, filterType) ==
  LET ofOperation(o) ==
        LET operation == spec.paths[o[1]][o[2]]
            ofExample(e) == IF Kept(operation.examples[e].ref, filterType)
                            THEN << Entry(ExampleLoc(o[1], o[2], e), operation.examples[e]) >>
                            ELSE Nil
            ofResponse(c) == IF Kept(operation.responses[c].ref, filterType)
                             THEN << Entry(ResponseLoc(o[1], o[2], c), operation.responses[c]) >>
                             ELSE Nil
        IN FlatMap(ofExample, KeyOrder(DOMAIN operation.examples))
           \o FlatMap(ofResponse, KeyOrder(DOMAIN operation.responses))
      ofDefinition(m) ==
        (IF Kept(spec.defs[m].ref, filterType)
         THEN << Entry(DefLoc(m), spec.defs[m]) >> ELSE Nil)
        \o RefsOfModel(m, spec.defs[m], filterType)
  IN FlatMap(ofOperation, KeyOrder(OperationKeys(spec)))
     \o FlatMap(ofDefinition, DefinitionKeys(spec))

\* utils.setObject(doc, slicedRefName, node): the object is put (back) at
\* its location
SetNode(spec, loc, node) ==
  CASE loc.k = "properties" ->
         [spec EXCEPT !.defs[loc.a] = [@ EXCEPT !.hasProps = TRUE, !.props = Put(@, loc.b, node)]]
    [] loc.k = "allOf" ->
         [spec EXCEPT !.defs[loc.a] =
            [@ EXCEPT !.hasAllOf = TRUE,
                      !.allOf = IF loc.i <= Len(@) THEN [@ EXCEPT ![loc.i] = node]
                                ELSE Append(@, node)]]
    [] loc.k = "responses" ->
         [spec EXCEPT !.paths[loc.a][loc.b].responses[loc.c] = node]
    [] loc.k = "definitions" -> [spec EXCEPT !.defs[loc.a] = node]
    [] OTHER -> [spec EXCEPT !.paths[loc.a][loc.b].examples[loc.c] = node]

\* utils.setObject(doc, slicedRefName, result): the loaded file replaces
\* the `$ref` object at the location
SpliceFile(spec, loc, result) ==
  CASE loc.k = "definitions" -> [spec EXCEPT !.defs[loc.a] = result.body]
    [] loc.k = "x-ms-examples" ->
         [spec EXCEPT !.paths[loc.a][loc.b].examples[loc.c] =
                        [ref |-> NoRef, body |-> result.example]]
    [] OTHER -> spec

\* a resolver that forgets what it has spliced
NeverVisited(entities, name) == FALSE

\* self.visitedEntities[slicedLocalReferenceValue] is truthy
Visited(entities, name) == name \in DOMAIN entities

\* no call of the relative-path pass is pending
Quiet == [active |-> FALSE, stack |-> Nil]

\* the pending call resolveRelativePaths(doc, docPath, filterType); doc is
\* "" for specInJson and otherwise the definition spliced under that name
PathsCall(doc, docPath, queue) ==
  [ kind |-> "resolveRelativePaths", doc |-> doc, docPath |-> docPath,
    queue |-> queue, phase |-> "", entry |-> NoEntry, defQueue |-> Nil ]

\* the pending call resolveRelativeReference(refName, refDetails, doc, docPath)
ReferenceCall(doc, docPath, entry) ==
  [ kind |-> "resolveRelativeReference", doc |-> doc, docPath |-> docPath,
    queue |-> Nil, phase |-> "parseJson", entry |-> entry, defQueue |-> Nil ]

\* the callback of resolveRelativePaths: the host document is scanned
ThenResolveRelativePaths ==
  /\ pc = "resolveRelativePaths"
  /\ ~async.active
  /\ IF Gated("resolveRelativePaths")
     THEN LET refs == RefsOfDocument(specInJson, "relative") IN
          /\ started' = Append(started, "resolveRelativePaths")
          /\ IF refs = Nil
             THEN /\ Continue(After("resolveRelativePaths"), "self")
                  /\ UNCHANGED async
             ELSE /\ async' = [active |-> TRUE, stack |-> << PathsCall("", "host.json", refs) >>]
                  /\ UNCHANGED << pc, outcome >>
     ELSE /\ Continue(After("resolveRelativePaths"), "self")
          /\ UNCHANGED << started, async >>
  /\ UNCHANGED << specInJson, files, rawOptions, options, visitedEntities,
                  resolvedAllOfModels, sync, run, calls, received, invoked, composed, aliased >>

\* a chain that calls the next factory while the promise of the one
\* before is pending (Promise.all over the factories)
StartEveryReference ==
  /\ async.active /\ async.stack # Nil
  /\ Len(async.stack) < MaxAsyncDepth
  /\ \E d \in 1..Len(async.stack) :
       LET frame == async.stack[d]
           entry == Head(frame.queue)
           parsedReference == parseReferenceInSwagger(entry.node.ref)
           docPath == IF parsedReference.filePath # "" THEN parsedReference.filePath
                      ELSE frame.docPath
       IN /\ frame.kind = "resolveRelativePaths"
          /\ frame.queue # Nil
          /\ async' = [async EXCEPT !.stack =
                         Append([@ EXCEPT ![d] = [frame EXCEPT !.queue = Tail(@)]],
                                ReferenceCall(frame.doc, docPath, entry))]
  /\ UNCHANGED << specInJson, files, rawOptions, options, visitedEntities,
                  resolvedAllOfModels, pc, started, sync, outcome, run, calls, received, invoked,
                  composed, aliased >>

\* utils.executePromisesSequentially: the next factory is called once the
\* promise of the one before has fulfilled
NextResolveRelativeReference ==
  /\ async.active /\ async.stack # Nil
  /\ Top(async.stack).kind = "resolveRelativePaths"
  /\ Top(async.stack).queue # Nil
  /\ Len(async.stack) < MaxAsyncDepth
  /\ LET frame == Top(async.stack)
         entry == Head(frame.queue)
         parsedReference == parseReferenceInSwagger(entry.node.ref)
         docPath == IF parsedReference.filePath # "" THEN parsedReference.filePath
                    ELSE frame.docPath
     IN async' = [async EXCEPT !.stack =
                    Append(ReplaceTop(@, [frame EXCEPT !.queue = Tail(@)]),
                           ReferenceCall(frame.doc, docPath, entry))]
  /\ UNCHANGED << specInJson, files, rawOptions, options, visitedEntities,
                  resolvedAllOfModels, pc, started, sync, outcome, run, calls, received, invoked,
                  composed, aliased >>

\* the caller of a call that returned goes on after its await
Resume(stack) ==
  IF stack = Nil THEN stack
  ELSE LET caller == Top(stack)
       IN IF caller.phase = "nested"
          THEN ReplaceTop(stack, [caller EXCEPT !.phase = "definitions"])
          ELSE IF caller.phase = "nestedDefinition"
          THEN ReplaceTop(stack, [caller EXCEPT !.phase = "unresolved"])
          ELSE stack

\* resolveRelativePaths returns: every factory has run (or there was none)
ReturnResolveRelativePaths ==
  /\ async.active /\ async.stack # Nil
  /\ Top(async.stack).kind = "resolveRelativePaths"
  /\ Top(async.stack).queue = Nil
  /\ IF Len(async.stack) = 1
     THEN /\ async' = Quiet
          /\ Continue(After("resolveRelativePaths"), "self")
     ELSE /\ async' = [async EXCEPT !.stack = Resume(Pop(@))]
          /\ UNCHANGED << pc, outcome >>
  /\ UNCHANGED << specInJson, files, rawOptions, options, visitedEntities,
                  resolvedAllOfModels, started, sync, run, calls, received, invoked,
                  composed, aliased >>

\* `await utils.parseJson(docPath)` rejects: the loader failed
ParseJsonRejects ==
  /\ async.active /\ async.stack # Nil
  /\ Top(async.stack).kind = "resolveRelativeReference"
  /\ Top(async.stack).phase = "parseJson"
  /\ async' = Quiet
  /\ Catch("LoaderError")
  /\ UNCHANGED << specInJson, files, rawOptions, options, visitedEntities,
                  resolvedAllOfModels, started, sync, run, calls, received, invoked,
                  composed, aliased >>

\* `await utils.parseJson(docPath)` fulfils and resolveRelativeReference
\* runs up to its next await or return
ParseJsonFulfils ==
  /\ async.active /\ async.stack # Nil
  /\ Top(async.stack).kind = "resolveRelativeReference"
  /\ Top(async.stack).phase = "parseJson"
  /\ Top(async.stack).docPath \in DOMAIN files
  /\ LET frame == Top(async.stack)
         result == files[frame.docPath]
         loc == frame.entry.loc
         node == frame.entry.node
         parsedReference == parseReferenceInSwagger(node.ref)
         name == parsedReference.localReference
     IN IF name = ""
        THEN \* no local reference: the parsed file replaces the `$ref` object
             /\ specInJson' =
                  IF Truthy(options.shouldResolveXmsExamples) \/ ~IndexOf(loc, "x-ms-examples")
                  THEN SpliceFile(specInJson, loc, result) ELSE specInJson
             /\ aliased' = IF loc.k = "definitions"
                           THEN Put(aliased, loc.a, ObjectOf(frame.docPath, ""))
                           ELSE aliased
             /\ async' = [async EXCEPT !.stack = Pop(@)]
             /\ UNCHANGED << visitedEntities, files >>
        ELSE LET localized == SetNode(specInJson, loc, [node EXCEPT !.ref = LocalRef(name)])
                 edited == SharedWithLoader(localized, aliased, files)
             IN IF ~Visited(visitedEntities, name)
                THEN /\ name \in DOMAIN result.defs
                     /\ Len(async.stack) < MaxAsyncDepth
                     /\ LET referencedObj == edited[frame.docPath].defs[name] IN
                        /\ specInJson' = setObject(localized, name, referencedObj)
                        /\ files' = edited
                        /\ aliased' = Put(aliased, name, ObjectOf(frame.docPath, name))
                        /\ visitedEntities' = Put(visitedEntities, name, referencedObj)
                        /\ async' = [async EXCEPT !.stack =
                             Append(ReplaceTop(@, [frame EXCEPT !.phase = "nested"]),
                                    PathsCall(name, frame.docPath,
                                              RefsOfModel(name, referencedObj, "all")))]
                ELSE /\ specInJson' = localized
                     /\ files' = edited
                     /\ async' = [async EXCEPT !.stack = Pop(@)]
                     /\ UNCHANGED << visitedEntities, aliased >>
  /\ UNCHANGED << rawOptions, options, resolvedAllOfModels,
                  pc, started, sync, outcome, run, calls, received, invoked, composed >>

\* after the nested resolveRelativePaths: one factory per definition of the
\* parsed file is collected in unresolvedDefinitions
CollectUnresolvedDefinitions ==
  /\ async.active /\ async.stack # Nil
  /\ Top(async.stack).kind = "resolveRelativeReference"
  /\ Top(async.stack).phase = "definitions"
  /\ LET frame == Top(async.stack)
         result == files[frame.docPath]
     IN async' = [async EXCEPT !.stack =
          IF DOMAIN result.defs # {}
          THEN ReplaceTop(@, [frame EXCEPT !.phase = "unresolved", !.defQueue = result.order])
          ELSE Pop(@)]
  /\ UNCHANGED << specInJson, files, rawOptions, options, visitedEntities,
                  resolvedAllOfModels, pc, started, sync, outcome, run, calls, received, invoked,
                  composed, aliased >>

\* the next factory of unresolvedDefinitions (processDefinition): a
\* definition of the parsed file with an allOf that is not in
\* visitedEntities is spliced in and resolved
ProcessDefinition ==
  /\ async.active /\ async.stack # Nil
  /\ Top(async.stack).kind = "resolveRelativeReference"
  /\ Top(async.stack).phase = "unresolved"
  /\ LET frame == Top(async.stack)
         result == files[frame.docPath]
     IN IF frame.defQueue = Nil
        THEN /\ async' = [async EXCEPT !.stack = Pop(@)]
             /\ UNCHANGED << specInJson, visitedEntities, aliased >>
        ELSE LET defName == Head(frame.defQueue)
                 definitionObj == result.defs[defName]
                 matchFound == /\ definitionObj.hasAllOf
                               /\ \E i \in 1..Len(definitionObj.allOf) :
                                     ~Visited(visitedEntities, defName)
             IN IF matchFound
                THEN /\ Len(async.stack) < MaxAsyncDepth
                     /\ specInJson' = setObject(specInJson, defName, definitionObj)
                     /\ aliased' = Put(aliased, defName, ObjectOf(frame.docPath, defName))
                     /\ visitedEntities' = Put(visitedEntities, defName, definitionObj)
                     /\ async' = [async EXCEPT !.stack =
                          Append(ReplaceTop(@, [frame EXCEPT !.phase = "nestedDefinition",
                                                             !.defQueue = Tail(@)]),
                                 PathsCall(defName, frame.docPath,
                                           RefsOfModel(defName, definitionObj, "all")))]
                ELSE /\ async' = [async EXCEPT !.stack =
                          ReplaceTop(@, [frame EXCEPT !.defQueue = Tail(@)])]
                     /\ UNCHANGED << specInJson, visitedEntities, aliased >>
  /\ UNCHANGED << files, rawOptions, options, resolvedAllOfModels,
                  pc, started, sync, outcome, run, calls, received, invoked, composed >>

(***************************************************************************)
(* A second resolve() on the output of the first.                          *)
(***************************************************************************)
\* the caller builds a new SpecResolver on the resolved document, with the
\* options it passed before, and calls resolve() again
ResolveAgain ==
  /\ pc = "fulfilled"
  /\ run < calls
  /\ run' = run + 1
  /\ received' = specInJson
  /\ options' = constructor(rawOptions, specInJson)
  /\ visitedEntities' = EmptyMap
  /\ resolvedAllOfModels' = EmptyMap
  /\ started' = Nil
  /\ pc' = "unifyXmsPaths"
  /\ outcome' = Pending
  /\ composed' = Nil
  /\ UNCHANGED << specInJson, files, rawOptions, sync, async, calls, invoked, aliased >>

(***************************************************************************)
(* Methods of the resolver called on their own.                            *)
(***************************************************************************)
\* the resolver has been constructed and nothing has been called on it
Callable ==
  /\ pc = "unifyXmsPaths" /\ started = Nil /\ run = 1
  /\ invoked = NotInvoked
  /\ specInJson.hasDefinitions

\* the arrays of model names a caller passes: empty, one model, a model
\* and a name that is not in `definitions`
NameLists(spec) ==
  {Nil} \cup {<< m >> : m \in DOMAIN spec.defs} \cup {<< m, "Ghost" >> : m \in DOMAIN spec.defs}

\* the caller calls setAdditionalPropertiesFalse(modelNames, force), with
\* or without modelNames
CallSetAdditionalPropertiesFalse ==
  /\ Callable
  /\ \E given \in BOOLEAN, force \in BOOLEAN, names \in NameLists(specInJson) :
       LET modelNames == IF given THEN names ELSE DefinitionKeys(specInJson)
           r == setAdditionalPropertiesFalse(specInJson, modelNames, force)
       IN /\ ~given => names = Nil
          /\ specInJson' = r.spec
          /\ invoked' = [NotInvoked EXCEPT !.method = "setAdditionalPropertiesFalse",
                                           !.given = given, !.modelNames = names,
                                           !.force = force, !.err = r.err]
  /\ pc' = "returned"
  /\ UNCHANGED << files, rawOptions, options, visitedEntities, resolvedAllOfModels,
                  started, sync, async, outcome, run, calls, received, composed, aliased >>

\* the caller calls resolveDiscriminator()
CallResolveDiscriminator ==
  /\ Callable
  /\ LET r == resolveDiscriminator(specInJson)
     IN /\ specInJson' = r.spec
        /\ invoked' = [NotInvoked EXCEPT !.method = "resolveDiscriminator", !.err = r.err]
  /\ pc' = "returned"
  /\ UNCHANGED << files, rawOptions, options, visitedEntities, resolvedAllOfModels,
                  started, sync, async, outcome, run, calls, received, composed, aliased >>

\* the caller builds a PolymorphicTree, with or without a child Cat, and
\* calls addChildByName on it
CallAddChildByName ==
  /\ Callable
  /\ \E tree \in {PolymorphicTree("Animal"),
                   addChildByObject(PolymorphicTree("Animal"), PolymorphicTree("Cat"))},
        childName \in [type : {"null", "undefined", "number", "object"}, text : {""}]
                        \cup [type : {"string", "object"}, text : {"", " ", "Cat", "Dog"}] :
       LET r == addChildByName(tree, childName)
       IN invoked' = [NotInvoked EXCEPT !.method = "addChildByName", !.tree = tree,
                                        !.node = r.node, !.childName = childName,
                                        !.err = r.err]
  /\ pc' = "returned"
  /\ UNCHANGED << specInJson, files, rawOptions, options, visitedEntities,
                  resolvedAllOfModels, started, sync, async, outcome, run, calls,
                  received, composed, aliased >>

\* the caller builds a PolymorphicTree, with or without a child Cat, and
\* calls addChildByObject on it with a node of its own
CallAddChildByObject ==
  /\ Callable
  /\ \E tree \in {PolymorphicTree("Animal"),
                   addChildByObject(PolymorphicTree("Animal"), PolymorphicTree("Cat"))},
        childObj \in {PolymorphicTree("Cat"), PolymorphicTree("Dog"),
                      addChildByObject(PolymorphicTree("Cat"), PolymorphicTree("Kit"))} :
       invoked' = [NotInvoked EXCEPT !.method = "addChildByObject", !.tree = tree,
                                     !.node = addChildByObject(tree, childObj),
                                     !.childName = [type |-> "PolymorphicTree",
                                                    text |-> childObj.name]]
  /\ pc' = "returned"
  /\ UNCHANGED << specInJson, files, rawOptions, options, visitedEntities,
                  resolvedAllOfModels, started, sync, async, outcome, run, calls,
                  received, composed, aliased >>

(***************************************************************************)
(* The next-state relation.                                                *)
(***************************************************************************)
Next ==
  \/ ThenUnifyXmsPaths
  \/ ThenResolveRelativePaths
  \/ NextResolveRelativeReference
  \/ ParseJsonFulfils
  \/ ParseJsonRejects
  \/ CollectUnresolvedDefinitions
  \/ ProcessDefinition
  \/ ReturnResolveRelativePaths
  \/ ThenResolveAllOfInDefinitions
  \/ MapResolveAllOfInModel
  \/ EnterResolveAllOfInModel
  \/ ItemOfAllOf
  \/ MergeItemOfAllOf
  \/ ReturnResolveAllOfInDefinitions
  \/ ThenResolveDiscriminator
  \/ ThenDeleteReferencesToAllOf
  \/ ThenSetAdditionalPropertiesFalse
  \/ ThenResolveParameterizedHost
  \/ ThenResolvePureObjects
  \/ ThenResolveNullableTypes
  \/ ThenModelImplicitDefaultResponse
  \/ ResolveAgain

\* the caller calls resolve(), or one of the other methods
NextMethods ==
  \/ Next
  \/ CallSetAdditionalPropertiesFalse
  \/ CallResolveDiscriminator
  \/ CallAddChildByName
  \/ CallAddChildByObject

\* the state after `new SpecResolver(specPath, specInJson, options)` for
\* one of the inputs of a family
Constructed(inputs) ==
  \E input \in inputs :
    /\ specInJson = input.doc
    /\ files = input.files
    /\ rawOptions = input.options
    /\ options = constructor(input.options, input.doc)
    /\ calls = input.calls
    /\ visitedEntities = EmptyMap
    /\ resolvedAllOfModels = EmptyMap
    /\ pc = "unifyXmsPaths"
    /\ started = Nil
    /\ sync = Idle
    /\ async = Quiet
    /\ outcome = Pending
    /\ run = 1
    /\ received = input.doc
    /\ invoked = NotInvoked
    /\ composed = Nil
    /\ aliased = EmptyMap

Input(doc, fs, opts, n) == [doc |-> doc, files |-> fs, options |-> opts, calls |-> n]

(***************************************************************************)
(* Input documents.                                                        *)
(***************************************************************************)
\* the caller passes no options
Unspecified == [k \in OptionNames |-> "U"]

\* a model with a `discriminator`
WithDiscriminator(model, d) == [model EXCEPT !.discriminator = d]

Kind == "kind" :> Prop(NoRef, "string")

Meow == "meow" :> Prop(NoRef, "boolean")

\* pets.json: Animal, and Cat with an allOf on Animal that nothing references
PetsFile ==
  File(<< "Animal", "Cat" >>,
       "Animal" :> WithDiscriminator(Model(Kind, Nil), "kind")
         @@ "Cat" :> Model(Meow, << RefItem(LocalRef("Animal")) >>),
       Model(EmptyMap, Nil), "")

\* an example file
ExampleFile == File(Nil, EmptyMap, Model(EmptyMap, Nil), "example")

PetsOperation(schema) ==
  Operation(FALSE, Nil, "200" :> Prop(schema, ""),
            "listPets" :> Example(FileRef("example.json", "")))

\* a host document that gives every pass something to do
PetStore ==
  Document("/pets" :> ("get" :> PetsOperation(LocalRef("Owner"))),
           "/pets?all" :> ("get" :> PetsOperation(LocalRef("Owner"))),
           << "Owner" >>,
           "Owner" :> Model("pet" :> Prop(FileRef("pets.json", "Animal"), ""), Nil),
           << "endpoint" >>)

PetStoreFiles == "pets.json" :> PetsFile @@ "example.json" :> ExampleFile

\* a host document without `definitions`
NoDefinitions ==
  [Document("/ping" :> ("get" :> Operation(FALSE, Nil, "200" :> Prop(NoRef, "string"), EmptyMap)),
            EmptyMap, Nil, EmptyMap, Nil)
     EXCEPT !.hasDefinitions = FALSE]

\* a host document with x-ms-paths and without `paths`
NoPaths ==
  [Document(EmptyMap,
            "/ping?x" :> ("get" :> Operation(FALSE, Nil, "200" :> Prop(NoRef, "string"), EmptyMap)),
            Nil, EmptyMap, Nil)
     EXCEPT !.hasPaths = FALSE]

\* every way to pass each option as true or false, and passing none
OptionSets == [OptionNames -> {"T", "F"}] \cup {Unspecified}

\* the inputs that together take every step of the resolver
CoreInputs ==
  { Input(PetStore, PetStoreFiles, Unspecified, MaxRuns),
    Input(NoDefinitions, EmptyMap, Unspecified, 1),
    Input(NoPaths, EmptyMap, Unspecified, 1) }

\* the pet store under every option set, and the documents without
\* definitions or paths
\* a model whose allOf names a definition that does not exist
DanglingAllOf ==
  Document("/ping" :> ("get" :> Operation(FALSE, Nil, "200" :> Prop(LocalRef("Cat"), ""), EmptyMap)),
           EmptyMap, << "Cat" >>,
           "Cat" :> Model(Meow, << RefItem(LocalRef("Ghost")) >>), Nil)

PipelineInputs ==
  CoreInputs
    \cup {Input(DanglingAllOf, EmptyMap, Unspecified, 1)}
    \cup {Input(PetStore, PetStoreFiles, o, 1) : o \in OptionSets}
    \cup {Input(NoDefinitions, EmptyMap, o, 1) : o \in OptionSets}

Init == Constructed(PipelineInputs)

Spec == Init /\ [][Next]_vars

(***************************************************************************)
(* The order of the passes (C1).                                           *)
(***************************************************************************)
\* the passes in the order the documentation fixes, each with its option
DocumentedOrder ==
  << << "unifyXmsPaths", "" >>,
     << "resolveRelativePaths", "shouldResolveRelativePaths" >>,
     << "resolveAllOfInDefinitions", "shouldResolveAllOf" >>,
     << "resolveDiscriminator", "shouldResolveDiscriminator" >>,
     << "deleteReferencesToAllOf", "shouldResolveAllOf" >>,
     << "setAdditionalPropertiesFalse", "shouldSetAdditionalPropertiesFalse" >>,
     << "resolveParameterizedHost", "shouldResolveParameterizedHost" >>,
     << "resolvePureObjects", "shouldResolvePureObjects" >>,
     << "resolveNullableTypes", "shouldResolveNullableTypes" >>,
     << "modelImplicitDefaultResponse", "shouldModelImplicitDefaultResponse" >> >>

PassNames == {DocumentedOrder[i][1] : i \in 1..Len(DocumentedOrder)}

Position(p) == CHOOSE i \in 1..Len(DocumentedOrder) : DocumentedOrder[i][1] = p

\* the option of pass p is true (unifyXmsPaths has none)
OptionOn(p) ==
  LET flag == DocumentedOrder[Position(p)][2] IN flag = "" \/ options[flag] = "T"

\* pass p was started in this run
Ran(p) == InSeq(p, started)

LastStarted == started[Len(started)]

\* the chain has come to the callback of pass p and decided whether to run it
Decided(p) ==
  CASE pc = "fulfilled" -> TRUE
    [] pc = "rejected" -> Position(p) <= Position(LastStarted)
    [] OTHER -> Position(p) < Position(pc) \/ (p = pc /\ Ran(p))

\* C1: the passes that run do so in the documented order, one at a time;
\* unifyXmsPaths always runs and every other pass runs exactly when its
\* option is true; resolveDiscriminator runs only after the allOf
\* composition has finished and before the allOf keys are deleted
PassesRunInDocumentedOrder ==
  /\ \A i, j \in 1..Len(started) :
       i < j => Position(started[i]) < Position(started[j])
  /\ \A p \in PassNames : Ran(p) => Decided(p)
  /\ \A p \in PassNames : Decided(p) => (Ran(p) <=> OptionOn(p))
  /\ sync.active =>
       pc = "resolveAllOfInDefinitions" /\ LastStarted = "resolveAllOfInDefinitions"
  /\ async.active =>
       pc = "resolveRelativePaths" /\ LastStarted = "resolveRelativePaths"
  /\ Ran("resolveDiscriminator") =>
       /\ Ran("resolveAllOfInDefinitions") /\ ~sync.active
       /\ \A i, j \in 1..Len(started) :
            started[i] = "deleteReferencesToAllOf" /\ started[j] = "resolveDiscriminator"
              => j < i

\* a run that was asked for discriminators without allOf and without
\* relative paths has fulfilled
DiscriminatorRunForcedAllOf ==
  /\ pc = "fulfilled"
  /\ rawOptions.shouldResolveDiscriminator = "T"
  /\ rawOptions.shouldResolveAllOf = "F"
  /\ rawOptions.shouldResolveRelativePaths = "F"
  /\ started[2] = "resolveAllOfInDefinitions"
  /\ started[3] = "resolveDiscriminator"
  /\ started[4] = "deleteReferencesToAllOf"

(***************************************************************************)
(* Failure of a pass (C2).                                                 *)
(***************************************************************************)
\* the causes a pass can fail with
Causes ==
  [ unifyXmsPaths |-> {"TypeError"},
    resolveRelativePaths |-> {"LoaderError"},
    resolveAllOfInDefinitions |-> {"TypeError", "RangeError"},
    resolveDiscriminator |-> {"RangeError"},
    modelImplicitDefaultResponse |-> {"TypeError"} ]

\* what resolve() settled with after a failure
RejectionCarriesCause ==
  /\ pc = "rejected" <=> outcome.state = "rejected"
  /\ pc = "fulfilled" <=> outcome.state = "fulfilled"
  /\ outcome.state = "rejected" =>
       /\ outcome.code = "ResolveSpecError"
       /\ outcome.specPath = "host.json"
       /\ Len(outcome.innerErrors) = 1
       /\ outcome.value = ""
       /\ LastStarted \in DOMAIN Causes
       /\ outcome.innerErrors[1] \in Causes[LastStarted]
  \* the failures the input decides
  /\ Ran("unifyXmsPaths") /\ ~specInJson.hasPaths /\ DOMAIN specInJson.xmsPaths # {} =>
       pc = "rejected" /\ outcome.innerErrors = << "TypeError" >> /\ started = << "unifyXmsPaths" >>
  /\ Ran("modelImplicitDefaultResponse") /\ ~specInJson.hasDefinitions =>
       pc = "rejected" /\ outcome.innerErrors = << "TypeError" >>
  /\ /\ Ran("resolveAllOfInDefinitions") /\ pc # "resolveAllOfInDefinitions"
     /\ \E m \in DOMAIN received.defs : \E i \in 1..Len(received.defs[m].allOf) :
          received.defs[m].allOf[i].ref.ptr = "Ghost"
     => pc = "rejected" /\ LastStarted = "resolveAllOfInDefinitions"

\* C2: when a pass fails no later pass is started and nothing is retried;
\* resolve() rejects with code ResolveSpecError, the spec path and the
\* original cause as its only inner error, and returns no tree
FailureRejectsWithResolveSpecError ==
  /\ []RejectionCarriesCause
  /\ [][pc = "rejected" => pc' = "rejected" /\ started' = started /\ outcome' = outcome]_vars
  /\ [][pc' = "rejected" /\ pc # "rejected" => started' = started \/ started' = Append(started, pc)]_vars

\* the loader failed while the relative-path pass was resolving a reference
\* of a spliced definition
LoaderFailedInNestedCall ==
  /\ pc = "rejected"
  /\ outcome.innerErrors = << "LoaderError" >>
  /\ DOMAIN visitedEntities # {}
  /\ started = << "unifyXmsPaths", "resolveRelativePaths" >>

(***************************************************************************)
(* A second resolve() (C8).                                                *)
(***************************************************************************)
\* C8: resolve() on the output of resolve() leaves the operations, and so
\* their `parameters` arrays, as the first run left them
SecondRunKeepsOperations ==
  pc = "fulfilled" /\ run > 1 => specInJson.paths = received.paths

(***************************************************************************)
(* Documents with inheritance (C4, C10).                                   *)
(***************************************************************************)
\* an operation that refers to nothing
Ping == "/ping" :> ("get" :> Operation(FALSE, Nil, "200" :> Prop(NoRef, "string"), EmptyMap))

\* the allOf array that names the models of a sequence
Items(names) == [i \in 1..Len(names) |-> RefItem(LocalRef(names[i]))]

\* the allOf arrays a model of a lineage can have: none, one model, two
\* models; the model itself and models that make a cycle included
ParentLists ==
  {Nil} \cup {<< x >> : x \in {"A", "B", "C"}}
        \cup {<< "A", "B" >>, << "A", "C" >>, << "B", "C" >>}

\* the orders the keys of `definitions` can come in
KeyOrders ==
  { << "A", "B", "C" >>, << "A", "C", "B" >>, << "B", "A", "C" >>,
    << "B", "C", "A" >>, << "C", "A", "B" >>, << "C", "B", "A" >> }

\* models A, B and C, each with one property of its own
Lineage(order, ofA, ofB, ofC) ==
  Document(Ping, EmptyMap, order,
           "A" :> Model("a" :> Prop(NoRef, "string"), Items(ofA))
             @@ "B" :> Model("b" :> Prop(NoRef, "string"), Items(ofB))
             @@ "C" :> Model("c" :> Prop(NoRef, "string"), Items(ofC)),
           Nil)

\* a model composed of a referenced model and an inline schema
Inlined ==
  Document(Ping, EmptyMap, << "B", "A" >>,
           "A" :> Model("a" :> Prop(NoRef, "string"), Nil)
             @@ "B" :> Model("b" :> Prop(NoRef, "string"),
                             << RefItem(LocalRef("A")), InlineItem("i" :> Prop(NoRef, "string")) >>),
           Nil)

InheritanceInputs ==
  CoreInputs
    \cup {Input(Inlined, EmptyMap, Unspecified, 1)}
    \cup {Input(Lineage(order, ofA, ofB, ofC), EmptyMap, Unspecified, 1) :
            order \in KeyOrders, ofA \in ParentLists, ofB \in ParentLists, ofC \in ParentLists}

InitInheritance == Constructed(InheritanceInputs)

SpecInheritance == InitInheritance /\ [][Next]_vars

\* the models the allOf array of model m of a document refers to
Parents(doc, m) ==
  {doc.defs[m].allOf[i].ref.ptr : i \in 1..Len(doc.defs[m].allOf)} \ {""}

\* the models reached from the set S in at most n further steps
RECURSIVE ReachedFrom(_, _, _)
ReachedFrom(doc, S, n) ==
  IF n = 0 THEN S
  ELSE ReachedFrom(doc, S \cup UNION {Parents(doc, x) : x \in S \cap DOMAIN doc.defs}, n - 1)

\* every model reached from m through the allOf `$ref`s of the document
Ancestors(doc, m) == ReachedFrom(doc, Parents(doc, m), Cardinality(DOMAIN doc.defs))

\* C4: after resolveAllOfInDefinitions and deleteReferencesToAllOf no
\* definition has an allOf, and the property keys of every definition hold
\* the property keys of all its transitive ancestors of the original
\* document, in whatever order the definitions are listed
ComposedModelsHoldAncestorProperties ==
  Ran("deleteReferencesToAllOf") =>
    \A m \in DOMAIN specInJson.defs :
      /\ ~specInJson.defs[m].hasAllOf
      /\ specInJson.defs[m].allOf = Nil
      /\ m \in DOMAIN received.defs =>
           \A n \in Ancestors(received, m) \cap DOMAIN received.defs :
             DOMAIN received.defs[n].props \subseteq DOMAIN specInJson.defs[m].props

\* a model listed first, before its parent and its grandparent, is composed
GrandchildListedFirstComposed ==
  /\ Ran("deleteReferencesToAllOf")
  /\ received.order = << "C", "B", "A" >>
  /\ Parents(received, "C") = {"B"}
  /\ Parents(received, "B") = {"A"}
  /\ Parents(received, "A") = {}
  /\ DOMAIN specInJson.defs["C"].props = {"a", "b", "c"}

\* C10: resolveAllOfInDefinitions is not entered again for a model that
\* is still being composed, and does not end in a stack overflow
AllOfCycleIsCutShort ==
  /\ \A i, j \in 1..Len(sync.stack) :
       i < j => sync.stack[i].modelRef # sync.stack[j].modelRef
  /\ ~(pc = "rejected" /\ outcome.innerErrors = << "RangeError" >>)

(***************************************************************************)
(* Documents with discriminators (C5, C6, C7).                             *)
(***************************************************************************)
\* an operation whose response is the model `schema`
Listing(schema) ==
  "/pets" :> ("get" :> Operation(FALSE, Nil, "200" :> Prop(LocalRef(schema), ""), EmptyMap))

\* Animal with discriminator `kind`, Cat below it, Dog and Kit below the
\* parents given, and a holder model with a property that refers to `target`
Kennel(order, holder, target, declared, value, ofCat, ofDog, ofKit) ==
  Document(Listing("Animal"), EmptyMap, Append(order, holder),
           "Animal" :> [WithDiscriminator(
                          Model(IF declared THEN Kind ELSE "name" :> Prop(NoRef, "string"), Nil),
                          "kind")
                        EXCEPT !.discValue = value]
             @@ "Cat" :> WithDiscriminator(
                           Model(Meow @@ "breed" :> Prop(NoRef, "string"),
                                 Items(<< "Animal" >>)),
                           ofCat)
             @@ "Dog" :> Model("bark" :> Prop(NoRef, "boolean"), Items(ofDog))
             @@ "Kit" :> Model("age" :> Prop(NoRef, "integer"), Items(ofKit))
             @@ holder :> Model("pet" :> Prop(LocalRef(target), ""), Nil),
           Nil)

DiscriminatorInputs ==
  CoreInputs
    \cup {Input(Kennel(order, holder, target, declared, value, ofCat, ofDog, ofKit),
                EmptyMap, Unspecified, 1) :
            order \in { << "Animal", "Cat", "Dog", "Kit" >>,
                        << "Kit", "Dog", "Cat", "Animal" >>,
                        << "Cat", "Animal", "Kit", "Dog" >> },
            holder \in {"Owner", "ZoneOfPets"},
            target \in {"Animal", "Cat"},
            declared \in BOOLEAN,
            value \in {"absent", "", "pet"},
            ofCat \in {"", "kind", "breed"},
            ofDog \in {Nil, << "Animal" >>, << "Cat" >>},
            ofKit \in {Nil, << "Cat" >>, << "Dog" >>, << "Cat", "Dog" >>}}

InitDiscriminator == Constructed(DiscriminatorInputs)

SpecDiscriminator == InitDiscriminator /\ [][Next]_vars

\* the models with an allOf item that refers to model n, in key order
Children(doc, n) ==
  LET refersTo(d) == n \in Parents(doc, d) IN SelectSeq(doc.order, refersTo)

\* model n and below it, children first-to-last and each child's subtree
\* straight after the child
RECURSIVE Preorder(_, _, _)
Preorder(doc, n, depth) ==
  LET below(d) == Preorder(doc, d, depth + 1)
  IN IF depth > Cardinality(DOMAIN doc.defs) THEN << n >>
     ELSE << n >> \o FlatMap(below, Children(doc, n))

\* the `oneOf`s of the document: at the properties of the definitions and
\* at the responses
OneOfs(spec) ==
  UNION {{spec.defs[m].props[p].oneOf : p \in DOMAIN spec.defs[m].props} : m \in DOMAIN spec.defs}
    \cup UNION {{spec.paths[o[1]][o[2]].responses[c].oneOf
                   : c \in DOMAIN spec.paths[o[1]][o[2]].responses}
                : o \in OperationKeys(spec)}

\* resolveDiscriminator has just returned in the first run: the allOf
\* arrays are still there, and every oneOf is one this pass has written
AfterDiscriminator ==
  pc = "deleteReferencesToAllOf" /\ Ran("resolveDiscriminator") /\ run = 1

\* the models a sequence of `$ref`s names
Named(refs) == [i \in 1..Len(refs) |-> refs[i].ptr]

\* C5: a location rewritten for discriminator root N holds N first and
\* then every transitive descendant of N, depth first, each exactly once
OneOfListsEachDescendantOnce ==
  AfterDiscriminator =>
    \A oneOf \in OneOfs(specInJson) :
      oneOf # Nil /\ specInJson.defs[oneOf[1].ptr].discriminator # "" =>
        Named(oneOf) = Dedup(Preorder(specInJson, oneOf[1].ptr, 1))

\* the `$ref`s of the document outside allOf and oneOf arrays
PlainRefs(spec) ==
  UNION {{spec.defs[m].props[p].ref : p \in DOMAIN spec.defs[m].props} : m \in DOMAIN spec.defs}
    \cup UNION {{spec.paths[o[1]][o[2]].responses[c].ref
                   : c \in DOMAIN spec.paths[o[1]][o[2]].responses}
                : o \in OperationKeys(spec)}

\* C6: after resolveDiscriminator no `$ref` outside allOf and oneOf arrays
\* names a model with a discriminator and at least one child
NoPlainRefToDiscriminatorRoot ==
  AfterDiscriminator =>
    \A n \in DOMAIN specInJson.defs :
      specInJson.defs[n].discriminator # "" /\ Children(specInJson, n) # Nil =>
        LocalRef(n) \notin PlainRefs(specInJson)

\* C7: after resolveDiscriminator the discriminator property of every
\* model with a discriminator has the one enum value
\* x-ms-discriminator-value, or the model name when there is none
DiscriminatorPropertyIsConstant ==
  AfterDiscriminator =>
    \A n \in DOMAIN specInJson.defs :
      LET model == specInJson.defs[n] IN
      model.discriminator # "" /\ model.discriminator \in DOMAIN model.props =>
        model.props[model.discriminator].enum =
          << IF model.discValue # "absent" THEN model.discValue ELSE n >>

(***************************************************************************)
(* Documents with references into other files (C3, C9).                    *)
(***************************************************************************)
\* a model with one property, which may be a `$ref`
Leaf(ref, parents) == Model("p" :> Prop(ref, IF ref = NoRef THEN "string" ELSE ""), Items(parents))

\* a.json defines A and B, b.json defines C; page.json is a schema that
\* is imported as a whole
Library(ofA, ofB, parentsOfB, ofC, ofPage) ==
  "a.json" :> File(<< "A", "B" >>,
                   "A" :> Leaf(ofA, Nil) @@ "B" :> Leaf(ofB, parentsOfB),
                   Model(EmptyMap, Nil), "")
    @@ "b.json" :> File(<< "C" >>, "C" :> Leaf(ofC, Nil), Model(EmptyMap, Nil), "")
    @@ "page.json" :> File(Nil, EmptyMap, Model("item" :> Prop(ofPage, ""), Nil), "")

\* a definition that is a `$ref` to a whole file
Import(file) == [Model(EmptyMap, Nil) EXCEPT !.hasProps = FALSE, !.ref = FileRef(file, "")]

\* the host document: Owner refers into a file, Page imports page.json
Reader(ofOwner, imports) ==
  IF imports
  THEN Document(Ping, EmptyMap, << "Owner", "Page" >>,
                "Owner" :> Leaf(ofOwner, Nil) @@ "Page" :> Import("page.json"), Nil)
  ELSE Document(Ping, EmptyMap, << "Owner" >>, "Owner" :> Leaf(ofOwner, Nil), Nil)

RelativeInputs ==
  CoreInputs
    \cup {Input(Reader(ofOwner, imports), Library(ofA, ofB, parentsOfB, ofC, ofPage),
                Unspecified, 1) :
            ofOwner \in {FileRef("a.json", "A"), FileRef("b.json", "C")},
            imports \in BOOLEAN,
            ofA \in {NoRef, LocalRef("A"), LocalRef("B"), FileRef("b.json", "C")},
            ofB \in {NoRef, LocalRef("A"), FileRef("a.json", "B"), FileRef("b.json", "C")},
            parentsOfB \in {Nil, << "A" >>},
            ofC \in {NoRef, LocalRef("C"), FileRef("a.json", "A"), FileRef("a.json", "B")},
            ofPage \in {NoRef, FileRef("a.json", "A")}}

InitRelative == Constructed(RelativeInputs)

SpecRelative == InitRelative /\ [][Next]_vars

\* a step other than a failure of the loader
LoaderReturns == Next /\ outcome'.innerErrors # << "LoaderError" >>

\* every callback that can run does run; the loader is not bound to fail
FairRelative == InitRelative /\ [][Next]_vars /\ WF_vars(LoaderReturns)

\* C3: after resolve() with shouldResolveRelativePaths every `$ref` of
\* the tree is local and points at a definition of the tree
EveryRefIsLocalAndResolves ==
  pc = "fulfilled" /\ Ran("resolveRelativePaths") =>
    \A r \in findRefs(specInJson) :
      r[2].file = "" /\ r[2].ptr \in DOMAIN specInJson.defs

\* resolveRelativeReference has loaded the file of a reference whose
\* local pointer is in visitedEntities
SecondEncounter ==
  /\ async.active /\ async.stack # Nil
  /\ Top(async.stack).kind = "resolveRelativeReference"
  /\ Top(async.stack).phase = "parseJson"
  /\ Top(async.stack).entry.node.ref.ptr \in DOMAIN visitedEntities

EverythingOff == [k \in OptionNames |-> "F"]

\* C11: with every option passed as false no pass but unifyXmsPaths is
\* started, and the tree resolve() fulfils with is the tree it received
\* with unifyXmsPaths applied: only `paths` can differ
DisabledPassesLeaveTree ==
  rawOptions = EverythingOff =>
    /\ options = EverythingOff
    /\ started \in {Nil, << "unifyXmsPaths" >>}
    /\ visitedEntities = EmptyMap /\ resolvedAllOfModels = EmptyMap
    /\ ~sync.active /\ ~async.active
    /\ started = Nil => specInJson = received
    /\ started # Nil =>
         /\ specInJson = unifyXmsPaths(received).spec
         /\ [specInJson EXCEPT !.paths = received.paths, !.unified = received.unified] = received
         /\ \A k \in DOMAIN received.paths \ DOMAIN received.xmsPaths :
              specInJson.paths[k] = received.paths[k]

\* resolve() has fulfilled with every option false, on a document whose
\* x-ms-paths were folded into paths
OnlyXmsPathsUnified ==
  /\ pc = "fulfilled"
  /\ rawOptions = EverythingOff
  /\ started = << "unifyXmsPaths" >>
  /\ DOMAIN specInJson.paths # DOMAIN received.paths
  /\ specInJson.defs = received.defs

(***************************************************************************)
(* Options passed, not passed, and forced (C12, C13, C14).                 *)
(***************************************************************************)
\* every way to pass each option as true or as false or not at all
OptionChoices == [OptionNames -> {"T", "F", "U"}]

\* a document with and one without `definitions`, under every choice
InitOptions ==
  \/ Constructed(CoreInputs)
  \/ \E o \in OptionChoices, doc \in {Inlined, NoDefinitions} :
       Constructed({Input(doc, EmptyMap, o, 1)})

SpecOptions == InitOptions /\ [][Next]_vars

\* C12: whatever the caller passes, an effective shouldResolveDiscriminator
\* that is true comes with an effective shouldResolveAllOf that is true,
\* and resolveDiscriminator is started only after
\* resolveAllOfInDefinitions has run to its end
DiscriminatorComesWithAllOf ==
  /\ Truthy(options.shouldResolveDiscriminator) => Truthy(options.shouldResolveAllOf)
  /\ Truthy(rawOptions.shouldResolveDiscriminator) => Truthy(options.shouldResolveAllOf)
  /\ Ran("resolveDiscriminator") =>
       /\ ~sync.active
       /\ \E i, j \in 1..Len(started) :
            /\ i < j
            /\ started[i] = "resolveAllOfInDefinitions"
            /\ started[j] = "resolveDiscriminator"

\* the caller asked for discriminators and passed shouldResolveAllOf as
\* false, on a document with an allOf: the discriminator pass has run
AllOfPassedFalseWasForced ==
  /\ rawOptions.shouldResolveDiscriminator = "T"
  /\ rawOptions.shouldResolveAllOf = "F"
  /\ rawOptions.shouldResolveNullableTypes = "U"
  /\ received.hasDefinitions
  /\ pc = "deleteReferencesToAllOf"
  /\ Ran("resolveDiscriminator")
  /\ DOMAIN specInJson.defs["B"].props = {"a", "b", "i"}

\* C13: whatever the caller passes for shouldResolveXmsExamples, an
\* effective shouldResolveRelativePaths that is false comes with an
\* effective shouldResolveXmsExamples that is false
ExamplesOffWithoutRelativePaths ==
  options.shouldResolveRelativePaths = "F" => options.shouldResolveXmsExamples = "F"

\* the options whose default is the value of shouldResolveAllOf
FollowAllOf ==
  { "shouldSetAdditionalPropertiesFalse", "shouldResolveDiscriminator",
    "shouldResolveNullableTypes" }

\* C14: an option that follows shouldResolveAllOf and was not passed has
\* the truth value of the effective shouldResolveAllOf; a
\* shouldResolveAllOf that was not passed (and was not forced by the
\* discriminator option) is true exactly when the document has `definitions`
UnspecifiedFollowAllOf ==
  /\ \A k \in FollowAllOf :
       rawOptions[k] = "U" => (Truthy(options[k]) <=> Truthy(options.shouldResolveAllOf))
  /\ rawOptions.shouldResolveAllOf = "U" /\ ~Truthy(options.shouldResolveDiscriminator) =>
       (Truthy(options.shouldResolveAllOf) <=> received.hasDefinitions)

(***************************************************************************)
(* Documents with operations (C15, C18, C19).                              *)
(***************************************************************************)
\* the `parameters` an operation can have: none, or an array with one
ParameterLists == { [has |-> FALSE, list |-> Nil], [has |-> TRUE, list |-> << "id" >>] }

\* the `responses` an operation can have: none, one without a `default`,
\* one with a `default` of its own
ResponseMaps ==
  { [has |-> FALSE, map |-> EmptyMap],
    [has |-> TRUE, map |-> "200" :> Prop(NoRef, "string")],
    [has |-> TRUE, map |-> "200" :> Prop(NoRef, "string")
                             @@ "default" :> Prop(LocalRef("Problem"), "")] }

\* an operation with these parameters and responses
Endpoint(parameters, responses) ==
  [Operation(parameters.has, parameters.list, responses.map, EmptyMap)
     EXCEPT !.hasResponses = responses.has]

\* the forms of `x-ms-parameterized-host`: absent, without `parameters`,
\* with an empty array, with two parameters
Hosts ==
  { [hasHost |-> FALSE, hasHostParams |-> FALSE, hostParams |-> Nil],
    [hasHost |-> TRUE, hasHostParams |-> FALSE, hostParams |-> Nil],
    [hasHost |-> TRUE, hasHostParams |-> TRUE, hostParams |-> Nil],
    [hasHost |-> TRUE, hasHostParams |-> TRUE, hostParams |-> << "endpoint", "region" >>] }

\* the definitions of the document: Problem, and a CloudError or a
\* CloudErrorWrapper of its own when `own` says so
Errors(own) ==
  LET mine == Model("mine" :> Prop(NoRef, "string"), Nil)
      problem == "Problem" :> Model("detail" :> Prop(NoRef, "string"), Nil)
  IN CASE own = "CloudError" -> problem @@ "CloudError" :> mine
       [] own = "CloudErrorWrapper" -> problem @@ "CloudErrorWrapper" :> mine
       [] OTHER -> problem

\* GET /pets in `paths`, and in `x-ms-paths` nothing, an operation under
\* a key of its own, or an operation under the key /pets as well
Service(inPaths, inXmsPaths, xmsKey, host, own) ==
  [Document("/pets" :> ("get" :> inPaths),
            IF xmsKey = "" THEN EmptyMap ELSE xmsKey :> ("get" :> inXmsPaths),
            IF own = "" THEN << "Problem" >> ELSE << "Problem", own >>,
            Errors(own), Nil)
     EXCEPT !.hasHost = host.hasHost,
            !.hasHostParams = host.hasHostParams,
            !.hostParams = host.hostParams]

\* no option passed but shouldModelImplicitDefaultResponse
ImplicitDefault == [Unspecified EXCEPT !.shouldModelImplicitDefaultResponse = "T"]

InitOperations ==
  \/ Constructed(CoreInputs)
  \/ \E p1, p2 \in ParameterLists, r1, r2 \in ResponseMaps,
        xmsKey \in {"", "/pets?all", "/pets"}, host \in Hosts,
        own \in {"", "CloudError", "CloudErrorWrapper"},
        o \in {Unspecified, ImplicitDefault} :
       /\ xmsKey = "" => p2 = p1 /\ r2 = r1
       /\ Constructed({Input(Service(Endpoint(p1, r1), Endpoint(p2, r2), xmsKey, host, own),
                             EmptyMap, o, 1)})

SpecOperations == InitOperations /\ [][Next]_vars

\* pass p has just run and returned: the step from its callback on
JustRan(p) == pc = p /\ Gated(p) /\ pc' = After(p)

\* C15: unifyXmsPaths with a non-empty x-ms-paths makes the keys of
\* `paths` the union of both key sets, and for a key of both keeps the
\* value `paths` had
PathsEntryWinsOverXmsPaths ==
  [][JustRan("unifyXmsPaths") /\ DOMAIN specInJson.xmsPaths # {} =>
       /\ DOMAIN specInJson'.paths = DOMAIN specInJson.paths \cup DOMAIN specInJson.xmsPaths
       /\ \A k \in DOMAIN specInJson.paths \cap DOMAIN specInJson.xmsPaths :
            specInJson'.paths[k] = specInJson.paths[k]]_vars

\* C18: after modelImplicitDefaultResponse every operation with
\* `responses` has a `default`; a `default` it had, its other responses
\* and an operation without `responses` are as before; with a CloudError
\* the definitions are as before, without one CloudError and
\* CloudErrorWrapper are the canonical ones
DefaultResponseIsModelled ==
  [][JustRan("modelImplicitDefaultResponse") =>
       /\ DOMAIN specInJson'.paths = DOMAIN specInJson.paths
       /\ \A o \in OperationKeys(specInJson) :
            LET before == specInJson.paths[o[1]][o[2]]
                after == specInJson'.paths[o[1]][o[2]]
            IN /\ before.hasResponses => "default" \in DOMAIN after.responses
               /\ \A c \in DOMAIN before.responses : after.responses[c] = before.responses[c]
               /\ ~before.hasResponses => after = before
               /\ [after EXCEPT !.responses = before.responses] = before
               /\ before.hasResponses /\ "default" \notin DOMAIN before.responses =>
                    after.responses["default"] = CloudErrorSchema
       /\ IF "CloudError" \in DOMAIN specInJson.defs
          THEN specInJson'.defs = specInJson.defs /\ specInJson'.order = specInJson.order
          ELSE /\ specInJson'.defs["CloudError"] = CloudError
               /\ specInJson'.defs["CloudErrorWrapper"] = CloudErrorWrapper
               /\ \A m \in DOMAIN specInJson.defs \ {"CloudErrorWrapper"} :
                    specInJson'.defs[m] = specInJson.defs[m]]_vars

\* the pass has run on a document with a CloudError of its own and an
\* operation with a default response of its own
OwnDefaultAndCloudErrorKept ==
  /\ pc = "fulfilled"
  /\ Ran("modelImplicitDefaultResponse")
  /\ DOMAIN specInJson.defs = {"Problem", "CloudError"}
  /\ "mine" \in DOMAIN specInJson.defs["CloudError"].props
  /\ DOMAIN specInJson.paths = {"/pets", "/pets?all"}
  /\ DOMAIN received.paths["/pets"]["get"].responses = {"200", "default"}
  /\ DOMAIN received.xmsPaths["/pets?all"]["get"].responses = {"200"}
  /\ specInJson.paths["/pets"]["get"].responses["default"].ref = LocalRef("Problem")
  /\ specInJson.paths["/pets?all"]["get"].responses["default"] = CloudErrorSchema

\* C19: resolveParameterizedHost on a document whose
\* x-ms-parameterized-host has `parameters` makes the parameters of every
\* operation its previous ones (none when absent) followed by the host
\* parameters in their order; otherwise no operation changes; nothing
\* but the operations' parameters changes
HostParametersAreAppended ==
  [][JustRan("resolveParameterizedHost") =>
       /\ [specInJson' EXCEPT !.paths = specInJson.paths] = specInJson
       /\ DOMAIN specInJson'.paths = DOMAIN specInJson.paths
       /\ \A o \in OperationKeys(specInJson) :
            LET before == specInJson.paths[o[1]][o[2]]
                after == specInJson'.paths[o[1]][o[2]]
            IN IF specInJson.hasHost /\ specInJson.hasHostParams
               THEN /\ after.hasParameters
                    /\ after.parameters =
                         (IF before.hasParameters THEN before.parameters ELSE Nil)
                           \o specInJson.hostParams
                    /\ [after EXCEPT !.hasParameters = before.hasParameters,
                                     !.parameters = before.parameters] = before
               ELSE after = before]_vars

\* the host parameters were appended to an operation with a parameter of
\* its own and to one without parameters
HostParametersAfterOwn ==
  /\ pc = "resolvePureObjects"
  /\ Ran("resolveParameterizedHost")
  /\ DOMAIN specInJson.paths = {"/pets", "/pets?all"}
  /\ specInJson.paths["/pets"]["get"].parameters = << "id", "endpoint", "region" >>
  /\ specInJson.paths["/pets?all"]["get"].parameters = << "endpoint", "region" >>
  /\ specInJson.hostParams = << "endpoint", "region" >>

(***************************************************************************)
(* Files that define models of the same name (C16).                        *)
(***************************************************************************)
\* a.json defines A, and B with an allOf on A; b.json defines a model
\* named `twin` and, when `withD`, D with an allOf on it
Shelves(twin, withD) ==
  "a.json" :> File(<< "A", "B" >>,
                   "A" :> Leaf(NoRef, Nil) @@ "B" :> Leaf(NoRef, << "A" >>),
                   Model(EmptyMap, Nil), "")
    @@ "b.json" :> File(IF withD THEN << twin, "D" >> ELSE << twin >>,
                        IF withD
                        THEN twin :> Model("q" :> Prop(NoRef, "integer"), Nil)
                               @@ "D" :> Model("d" :> Prop(NoRef, "integer"), Items(<< twin >>))
                        ELSE twin :> Model("q" :> Prop(NoRef, "integer"), Nil),
                        Model(EmptyMap, Nil), "")

\* the host document: Owner refers to A of a.json, Other to the twin of
\* b.json; when `own`, the host has definitions A and B of its own
Twins(order, twin, own) ==
  Document(Ping, EmptyMap, IF own THEN order \o << "A", "B" >> ELSE order,
           IF own
           THEN "Owner" :> Leaf(FileRef("a.json", "A"), Nil)
                  @@ "Other" :> Leaf(FileRef("b.json", twin), Nil)
                  @@ "A" :> Model("h" :> Prop(NoRef, "integer"), Nil)
                  @@ "B" :> Model("h" :> Prop(NoRef, "integer"), Nil)
           ELSE "Owner" :> Leaf(FileRef("a.json", "A"), Nil)
                  @@ "Other" :> Leaf(FileRef("b.json", twin), Nil),
           Nil)

InitShared ==
  \/ Constructed(CoreInputs)
  \/ \E order \in { << "Owner", "Other" >>, << "Other", "Owner" >> },
        twin \in {"A", "C"}, withD \in BOOLEAN, own \in BOOLEAN :
       Constructed({Input(Twins(order, twin, own), Shelves(twin, withD), Unspecified, 1)})

SpecShared == InitShared /\ [][Next]_vars

\* the files the `$ref`s of a document point into with a local pointer
Targets(doc) ==
  {r[2].file : r \in {x \in findRefs(doc) : x[2].file # "" /\ x[2].ptr # ""}}

\* the definitions of a file that model d of the file refers to
LocalTargets(file, d) ==
  Parents(file, d)
    \cup ({file.defs[d].props[k].ref.ptr :
             k \in {x \in DOMAIN file.defs[d].props : file.defs[d].props[x].ref.file = ""}}
           \ {""})

\* C16: once resolveRelativePaths has resolved the `$ref`s of the host,
\* every definition with an allOf of a file that a `$ref` with a local
\* pointer led into is in `definitions` under its name and in
\* visitedEntities, and so are the definitions it refers to
AllOfDefinitionsArePickedUp ==
  pc = "resolveAllOfInDefinitions" /\ Ran("resolveRelativePaths") /\ run = 1 =>
    \A f \in Targets(received) \cap DOMAIN files :
      \A d \in DOMAIN files[f].defs :
        files[f].defs[d].hasAllOf /\ files[f].defs[d].allOf # Nil =>
          /\ d \in DOMAIN specInJson.defs
          /\ d \in DOMAIN visitedEntities
          /\ LocalTargets(files[f], d) \subseteq DOMAIN specInJson.defs
          /\ LocalTargets(files[f], d) \subseteq DOMAIN visitedEntities

(***************************************************************************)
(* Methods called directly (C17, C20).                                     *)
(***************************************************************************)
\* the forms of a model: additionalProperties absent, true, false or an
\* object; `properties` absent, empty or with a key
Shapes ==
  { [Model(props.map, Nil) EXCEPT !.hasProps = props.has, !.additionalProperties = additional] :
      props \in { [has |-> FALSE, map |-> EmptyMap], [has |-> TRUE, map |-> EmptyMap],
                  [has |-> TRUE, map |-> "size" :> Prop(NoRef, "integer")] },
      additional \in {"absent", "true", "false", "object"} }

\* a document with two models
Pair(first, second) ==
  Document(Ping, EmptyMap, << "First", "Second" >>,
           "First" :> first @@ "Second" :> second, Nil)

\* models A, B and C with the allOf arrays given, A with a discriminator
Polymorphic(order, ofA, ofB, ofC) ==
  [Lineage(order, ofA, ofB, ofC) EXCEPT !.defs["A"].discriminator = "a"]

\* the `required` of a model: absent, empty, or an array of names
RequiredLists ==
  { [has |-> FALSE, names |-> Nil], [has |-> TRUE, names |-> Nil],
    [has |-> TRUE, names |-> << "x" >>], [has |-> TRUE, names |-> << "x", "y" >>],
    [has |-> TRUE, names |-> << "y", "x" >>], [has |-> TRUE, names |-> << "y", "z" >>] }

\* Storage with an allOf on Resource, each with `required` and
\* x-ms-azure-resource as given
Heirs(ofResource, ofStorage, resourceAzure, storageAzure) ==
  Document(Ping, EmptyMap, << "Resource", "Storage" >>,
           "Resource" :> [Model("id" :> Prop(NoRef, "string"), Nil)
                            EXCEPT !.hasRequired = ofResource.has,
                                   !.required = ofResource.names,
                                   !.azure = resourceAzure]
             @@ "Storage" :> [Model("sku" :> Prop(NoRef, "string"), Items(<< "Resource" >>))
                                EXCEPT !.hasRequired = ofStorage.has,
                                       !.required = ofStorage.names,
                                       !.azure = storageAzure],
           Nil)

InitMethods ==
  \/ Constructed(CoreInputs)
  \/ \E ofResource \in RequiredLists, ofStorage \in RequiredLists,
        resourceAzure \in {"absent", "true", "false"},
        storageAzure \in {"absent", "true", "false"} :
       Constructed({Input(Heirs(ofResource, ofStorage, resourceAzure, storageAzure),
                          EmptyMap, Unspecified, 1)})
  \/ \E first \in Shapes, second \in Shapes :
       Constructed({Input(Pair(first, second), EmptyMap, Unspecified, 1)})
  \/ \E order \in { << "A", "B", "C" >>, << "C", "B", "A" >> },
        ofA \in ParentLists, ofB \in ParentLists, ofC \in ParentLists :
       Constructed({Input(Polymorphic(order, ofA, ofB, ofC), EmptyMap, Unspecified, 1)})

SpecMethods == InitMethods /\ [][NextMethods]_vars

\* setAdditionalPropertiesFalse has just run, called by resolve() or by
\* the caller
JustClosed ==
  \/ JustRan("setAdditionalPropertiesFalse")
  \/ invoked = NotInvoked /\ invoked'.method = "setAdditionalPropertiesFalse"

\* C17: setAdditionalPropertiesFalse sets additionalProperties to false
\* on the named models that have none and have a non-empty `properties`,
\* and with `force` on every named model; it changes nothing else: a
\* model with additionalProperties true or an object, or with absent or
\* empty `properties`, stays as it is
AdditionalPropertiesAreClosed ==
  [][JustClosed =>
       LET force == invoked'.force
           named(m) == invoked'.given => InSeq(m, invoked'.modelNames)
       IN /\ [specInJson' EXCEPT !.defs = specInJson.defs] = specInJson
          /\ DOMAIN specInJson'.defs = DOMAIN specInJson.defs
          /\ \A m \in DOMAIN specInJson.defs :
               LET before == specInJson.defs[m]
                   after == specInJson'.defs[m]
               IN /\ [after EXCEPT !.additionalProperties = before.additionalProperties] = before
                  /\ after.additionalProperties =
                       IF /\ named(m)
                          /\ \/ force
                             \/ /\ before.additionalProperties = "absent"
                                /\ before.hasProps /\ DOMAIN before.props # {}
                       THEN "false" ELSE before.additionalProperties]_vars

\* called without force on a model with properties and no
\* additionalProperties and on one with an object as additionalProperties
ClosedOneLeftOne ==
  /\ invoked.method = "setAdditionalPropertiesFalse"
  /\ ~invoked.given /\ ~invoked.force
  /\ DOMAIN received.defs = {"First", "Second"}
  /\ received.defs["First"].additionalProperties = "absent"
  /\ DOMAIN received.defs["First"].props = {"size"}
  /\ specInJson.defs["First"].additionalProperties = "false"
  /\ specInJson.defs["Second"].additionalProperties = "object"
  /\ DOMAIN specInJson.defs["Second"].props = {"size"}

\* C20: resolveDiscriminator comes to an end without exhausting the call
\* stack, whatever the allOf `$ref`s of the definitions are
PolymorphicTreeIsFinite ==
  /\ invoked.method = "resolveDiscriminator" => invoked.err # "RangeError"
  /\ pc = "rejected" /\ LastStarted = "resolveDiscriminator" =>
       outcome.innerErrors # << "RangeError" >>

(***************************************************************************)
(* One `$ref` at a time in the relative-path pass (C21).                   *)
(***************************************************************************)
\* the pending call at depth i has called the one above it and awaits it
Awaits(stack, i) ==
  \/ /\ stack[i].kind = "resolveRelativePaths"
     /\ stack[i + 1].kind = "resolveRelativeReference"
  \/ /\ stack[i].kind = "resolveRelativeReference"
     /\ stack[i].phase \in {"nested", "nestedDefinition"}
     /\ stack[i + 1].kind = "resolveRelativePaths"

\* every pending call but the innermost awaits the call it made, and at
\* most one call waits for the loader
OneCallRuns(stack) ==
  /\ \A i \in 1..(Len(stack) - 1) : Awaits(stack, i)
  /\ Cardinality({i \in 1..Len(stack) :
                    stack[i].kind = "resolveRelativeReference"
                      /\ stack[i].phase = "parseJson"}) <= 1

\* a step that starts a resolveRelativeReference call
ReferenceStarts ==
  /\ Len(async'.stack) = Len(async.stack) + 1
  /\ Top(async'.stack).kind = "resolveRelativeReference"

\* C21: during resolveRelativePaths the `$ref`s are resolved one after
\* another in the order of the scan: no two resolveRelativeReference calls
\* (or loader calls) run side by side, a call starts only from the
\* resolveRelativePaths call that is running, for the first `$ref` it has
\* not started yet, and so a nested resolveRelativePaths has returned
\* before the next sibling starts
RefsResolveOneAfterAnother ==
  [][/\ OneCallRuns(async'.stack)
     /\ ReferenceStarts =>
          /\ Top(async.stack).kind = "resolveRelativePaths"
          /\ Top(async'.stack).entry = Head(Top(async.stack).queue)
          /\ async'.stack[Len(async.stack)].queue = Tail(Top(async.stack).queue)]_vars

\* a nested resolveRelativePaths runs for a spliced definition while the
\* scan of the host document has a sibling `$ref` left to start
NestedRunsBeforeSibling ==
  /\ async.active /\ Len(async.stack) >= 3
  /\ async.stack[1].kind = "resolveRelativePaths" /\ async.stack[1].queue # Nil
  /\ async.stack[2].phase = "nested"
  /\ async.stack[3].kind = "resolveRelativePaths" /\ async.stack[3].queue # Nil

(***************************************************************************)
(* The two caches of a resolver (C22, C23).                                *)
(***************************************************************************)
\* C22: during a run of resolve() visitedEntities and resolvedAllOfModels
\* only grow: a key that is in one of them stays in it until the run ends
CachesOnlyGrow ==
  [][run' = run =>
       /\ DOMAIN visitedEntities \subseteq DOMAIN visitedEntities'
       /\ DOMAIN resolvedAllOfModels \subseteq DOMAIN resolvedAllOfModels']_vars

\* a run has ended with several keys in each cache
BothCachesFilled ==
  /\ pc = "fulfilled"
  /\ Cardinality(DOMAIN visitedEntities) >= 2
  /\ Cardinality(DOMAIN resolvedAllOfModels) >= 2


\* the entries a step writes into a cache: a new key, or a new value
Inserted(before, after) ==
  {k \in DOMAIN after : k \notin DOMAIN before \/ after[k] # before[k]}

\* the key is the pointer "/definitions/<k>" of a definition of the tree
\* and the value is what the tree holds there
HoldsTreeValue(spec, cache, k) ==
  /\ spec.hasDefinitions
  /\ k \in DOMAIN spec.defs
  /\ cache[k] = spec.defs[k]

\* C23: every entry put into visitedEntities or resolvedAllOfModels has a
\* key that is a JSON pointer into the tree and a value equal to what the
\* tree holds at that pointer when the entry is put; also the entries of
\* allOf items that are inline schemas without a `$ref`
CacheEntriesAreTreeValues ==
  [][/\ \A k \in Inserted(visitedEntities, visitedEntities') :
          HoldsTreeValue(specInJson', visitedEntities', k)
     /\ \A k \in Inserted(resolvedAllOfModels, resolvedAllOfModels') :
          HoldsTreeValue(specInJson', resolvedAllOfModels', k)]_vars

(***************************************************************************)
(* Two files that define the same local pointer (C24).                     *)
(***************************************************************************)
\* a `$ref` with its file part taken off
Local(ref) == IF ref = NoRef THEN NoRef ELSE LocalRef(ref.ptr)

\* a model of a file with every `$ref` inside it made local
Localized(model) ==
  [model EXCEPT !.props = [k \in DOMAIN @ |-> [@[k] EXCEPT !.ref = Local(@)]],
                !.allOf = [i \in 1..Len(@) |-> [@[i] EXCEPT !.ref = Local(@)]]]

\* resolveRelativePaths has returned in the first run
AfterRelativePaths ==
  pc = "resolveAllOfInDefinitions" /\ ~sync.active
    /\ Ran("resolveRelativePaths") /\ run = 1

\* C24: once resolveRelativePaths has rewritten a `$ref` F#P of the host
\* into #P, the tree holds at P the value file F holds at P, with the
\* `$ref`s inside it made local; also when another file defines P too
RewrittenRefFindsItsFile ==
  AfterRelativePaths =>
    \A r \in findRefs(received) :
      r[2].file \in DOMAIN files /\ r[2].ptr \in DOMAIN files[r[2].file].defs =>
        /\ r[2].ptr \in DOMAIN specInJson.defs
        /\ specInJson.defs[r[2].ptr] = Localized(files[r[2].file].defs[r[2].ptr])

(***************************************************************************)
(* How often a model is composed (C25).                                    *)
(***************************************************************************)
\* C25: in one run of resolveAllOfInDefinitions mergeParentAllOfInChild is
\* applied at most once for each parent P of the allOf of a child M,
\* whatever the order of the keys of `definitions`: a model that has been
\* composed is found in resolvedAllOfModels and skipped
EachParentMergedOnce ==
  \A x, y \in 1..Len(composed) :
    composed[x].child = composed[y].child /\ composed[x].i = composed[y].i => x = y

(***************************************************************************)
(* What a merge does to the child (C26).                                   *)
(***************************************************************************)
\* the elements of a sequence
Elements(s) == {s[i] : i \in 1..Len(s)}

\* where x comes first in sequence s
FirstAt(s, x) == CHOOSE i \in 1..Len(s) : s[i] = x /\ \A j \in 1..(i - 1) : s[j] # x

\* the step on which mergeParentAllOfInChild ran
JustMerged ==
  /\ sync.active /\ sync.stack # Nil /\ Top(sync.stack).phase = "merge"
  /\ Len(composed') = Len(composed) + 1

\* the parent the merge on this step was called with
MergedFrom ==
  ReferencedModel(specInJson, specInJson.defs[Top(sync.stack).modelRef].allOf[Top(sync.stack).i])

\* with a parent that has `required`, the child's `required` holds the
\* names of both arrays, each once, the parent's first, in first-seen order
RequiredIsUnion(parent, child, after) ==
  parent.hasRequired =>
    LET both == parent.required \o child.required
        got == after.required
    IN /\ after.hasRequired
       /\ Elements(got) = Elements(both)
       /\ \A i, j \in 1..Len(got) : i # j => got[i] # got[j]
       /\ \A i, j \in 1..Len(got) : i < j => FirstAt(both, got[i]) < FirstAt(both, got[j])

\* no field but properties, required and x-ms-azure-resource has changed
OtherFieldsKept(child, after) ==
  after = [child EXCEPT !.hasProps = after.hasProps, !.props = after.props,
                        !.hasRequired = after.hasRequired, !.required = after.required,
                        !.azure = after.azure]

\* C26: after mergeParentAllOfInChild(parent, child) with a parent that
\* has `required`, child.required holds exactly the names of
\* parent.required and of the child's former `required`, without
\* duplicates, in first-seen order, the parent's first; x-ms-azure-resource
\* is copied from the parent when the parent has it; no other field of the
\* child but `properties` changes
MergeCopiesAzureWhenPresent ==
  [][JustMerged =>
       LET parent == MergedFrom
           child == specInJson.defs[Top(sync.stack).modelRef]
           after == specInJson'.defs[Top(sync.stack).modelRef]
       IN /\ RequiredIsUnion(parent, child, after)
          /\ OtherFieldsKept(child, after)
          /\ after.azure = IF parent.azure # "absent" THEN parent.azure ELSE child.azure]_vars

\* C26 as amended: the same, with x-ms-azure-resource copied from the
\* parent when the parent's value is truthy, and left as the child had it
\* otherwise
MergeCopiesAzureWhenTruthy ==
  [][JustMerged =>
       LET parent == MergedFrom
           child == specInJson.defs[Top(sync.stack).modelRef]
           after == specInJson'.defs[Top(sync.stack).modelRef]
       IN /\ RequiredIsUnion(parent, child, after)
          /\ OtherFieldsKept(child, after)
          /\ after.azure = IF parent.azure = "true" THEN parent.azure ELSE child.azure]_vars

\* Resource with required [y, x] and x-ms-azure-resource false was merged
\* into Storage with required [x, y] and x-ms-azure-resource true
MergedIntoAzureChild ==
  /\ pc = "fulfilled" /\ run = 1
  /\ DOMAIN received.defs = {"Resource", "Storage"}
  /\ received.defs["Resource"].required = << "y", "x" >>
  /\ received.defs["Resource"].azure = "false"
  /\ received.defs["Storage"].required = << "x", "y" >>
  /\ received.defs["Storage"].azure = "true"
  /\ specInJson.defs["Storage"].required = << "y", "x" >>
  /\ specInJson.defs["Storage"].azure = "true"

(***************************************************************************)
(* The documents of the loader (C27).                                      *)
(***************************************************************************)
\* C27: no pass of resolve() modifies a document the loader returned:
\* what is taken from it is copied into the tree, so no edit of the tree
\* (a nested `$ref` rewritten, an allOf merged, an enum or
\* additionalProperties added) changes the loaded document, and a second
\* load of the document yields what the first did
LoadedDocumentsAreKept ==
  [][files' = files]_vars

(***************************************************************************)
(* The methods of PolymorphicTree (C28).                                   *)
(***************************************************************************)
\* the value is a string with a character that is no blank
NonEmptyString(value) == value.type = "string" /\ value.text \notin {"", " "}

\* C28: addChildByName(name) throws exactly when name is not a non-empty
\* string; for a non-empty string it adds a new child node when there is
\* no child of that name, and otherwise returns the child there is and
\* leaves `children` as it was. addChildByObject leaves `children` as it
\* was when a child of the same name is there
ChildIsAddedOnce ==
  /\ invoked.method = "addChildByName" =>
       /\ invoked.err # "" <=> ~NonEmptyString(invoked.childName)
       /\ NonEmptyString(invoked.childName) =>
            invoked.node.children =
              IF HasChild(invoked.tree, invoked.childName.text)
              THEN invoked.tree.children
              ELSE Append(invoked.tree.children, PolymorphicTree(invoked.childName.text))
  /\ invoked.method = "addChildByObject" /\ HasChild(invoked.tree, invoked.childName.text) =>
       invoked.node.children = invoked.tree.children

(***************************************************************************)
(* What the host document held before the relative paths (C29).            *)
(***************************************************************************)
\* the model holds a `$ref` to a whole file, which the pass replaces by
\* the content of the file
RefersToWholeFile(model) ==
  \E r \in {model.ref} \cup {model.props[k].ref : k \in DOMAIN model.props}
             \cup {model.allOf[i].ref : i \in 1..Len(model.allOf)} :
     r.file # "" /\ r.ptr = ""

\* C29: resolveRelativePaths replaces no value the host document held:
\* every definition of the input tree is, once the pass has returned, the
\* host's own definition with the `$ref`s inside it made local; also when
\* a file defines a model of the same name and is reached by a `$ref` or
\* by the pickup of its definitions with an allOf
HostDefinitionsAreKept ==
  AfterRelativePaths =>
    \A d \in DOMAIN received.defs :
      ~RefersToWholeFile(received.defs[d]) =>
        /\ d \in DOMAIN specInJson.defs
        /\ specInJson.defs[d] = Localized(received.defs[d])

(***************************************************************************)
(* The `$ref`s resolveDiscriminator rewrites (C30).                        *)
(***************************************************************************)
\* the step leaves every `$ref` outside allOf and oneOf arrays that names
\* no model of `targets` as it was
RefsLeftAlone(targets) ==
  /\ \A m \in DOMAIN specInJson.defs : \A p \in DOMAIN specInJson.defs[m].props :
       LET before == specInJson.defs[m].props[p]
           after == specInJson'.defs[m].props[p]
       IN before.ref # NoRef /\ before.ref.ptr \notin targets =>
            after.ref = before.ref /\ after.oneOf = before.oneOf
  /\ \A o \in OperationKeys(specInJson) :
       \A c \in DOMAIN specInJson.paths[o[1]][o[2]].responses :
         LET before == specInJson.paths[o[1]][o[2]].responses[c]
             after == specInJson'.paths[o[1]][o[2]].responses[c]
         IN before.ref # NoRef /\ before.ref.ptr \notin targets =>
              after.ref = before.ref /\ after.oneOf = before.oneOf

\* the models with a `discriminator` field
DiscriminatorRoots(spec) == {n \in DOMAIN spec.defs : spec.defs[n].discriminator # ""}

\* the models of the polymorphic trees that have a child: the nodes of
\* subTreeMap with children.size > 0
NonLeafNodes(spec) ==
  {n \in UNION {Elements(Preorder(spec, root, 1)) : root \in DiscriminatorRoots(spec)} :
     Children(spec, n) # Nil}

\* C30: resolveDiscriminator rewrites into `oneOf` only `$ref`s to a model
\* that has a `discriminator` field: a `$ref` to a model without one, such
\* as a descendant of a root that has children itself, is left unchanged
OnlyRefsToDiscriminatorsRewritten ==
  [][JustRan("resolveDiscriminator") =>
       RefsLeftAlone(DiscriminatorRoots(specInJson))]_vars

\* C30, amended: resolveDiscriminator rewrites into `oneOf` only `$ref`s
\* to a model that is in the tree of a model with a `discriminator` field
\* and has a child: a `$ref` to a model without children, or to a model
\* outside every tree, is left unchanged
OnlyRefsToParentNodesRewritten ==
  [][JustRan("resolveDiscriminator") => RefsLeftAlone(NonLeafNodes(specInJson))]_vars

\* a property that referred to a model without `discriminator` holds a
\* oneOf of that model and its descendants
DescendantWithChildrenRewritten ==
  /\ AfterDiscriminator
  /\ \E m \in DOMAIN received.defs \cap DOMAIN specInJson.defs :
       \E p \in DOMAIN received.defs[m].props \cap DOMAIN specInJson.defs[m].props :
         LET before == received.defs[m].props[p]
             after == specInJson.defs[m].props[p]
         IN /\ before.ref # NoRef
            /\ before.ref.ptr \in DOMAIN specInJson.defs
            /\ specInJson.defs[before.ref.ptr].discriminator = ""
            /\ after.ref = NoRef
            /\ Len(after.oneOf) > 1
            /\ after.oneOf[1] = before.ref

=============================================================================
